---- MODULE Spec2Model ----
(***************************************************************************)
(* Model of the family-budget backend: the auto-categorization engine      *)
(* (utils/categorization.py), the CSV ingestion parser                     *)
(* (utils/csv_parser.py) and the request handlers that drive them          *)
(* (api/transactions.py, api/upload.py).                                   *)
(*                                                                         *)
(* Text is modelled as a sequence of one-character strings, so that        *)
(* trimming, upper-casing, the regular-expression clean-up and the         *)
(* substring test are computed, not assumed.  Confidences are kept in      *)
(* hundredths (0.9 is 90, 1.0 is 100).                                     *)
(***************************************************************************)
EXTENDS Integers, Sequences, FiniteSets, TLC

VARIABLES
    rules,          \* db.categorization_rules, in insertion (_id) order
    transactions,   \* db.transactions, in insertion (_id) order
    uploads,        \* db.uploads, in insertion order
    categories,     \* the documents of db.categories, in insertion order
    now,            \* logical clock standing for datetime.utcnow()
    last,           \* the call that completed last, with what it returned
    prev,           \* the call that completed before it
    pc,             \* per request: the statement it is about to execute
    loc,            \* per request: its local variables
    hits,           \* per rule: the usage updates decided against it
    file,           \* the CSV file handed to the parser
    parsed,         \* what the last parse_csv or upload_csv call returned
    amount_string,  \* the cell handed to parse_amount
    amount_result   \* what parse_amount made of it

vars == <<rules, transactions, uploads, categories, now, last, prev, pc, loc, hits,
         file, parsed, amount_string, amount_result>>

(***************************************************************************)
(* Text helpers (Python str methods and the re module).                    *)
(***************************************************************************)
Digits == {"0", "1", "2", "3", "4", "5", "6", "7", "8", "9"}

IsDigit(c) == c \in Digits

IsSpace(c) == c = " "

UpperChar(c) ==
    CASE c = "a" -> "A"
      [] c = "b" -> "B"
      [] c = "c" -> "C"
      [] c = "n" -> "N"
      [] c = "u" -> "U"
      [] c = "l" -> "L"
      [] c = "o" -> "O"
      [] c = "e" -> "E"
      [] OTHER -> c

LowerChar(c) ==
    CASE c = "A" -> "a"
      [] c = "B" -> "b"
      [] c = "C" -> "c"
      [] c = "N" -> "n"
      [] c = "U" -> "u"
      [] c = "L" -> "l"
      [] c = "O" -> "o"
      [] c = "E" -> "e"
      [] OTHER -> c

\* str.upper()
Upper(s) == [i \in 1..Len(s) |-> UpperChar(s[i])]

\* str.lower()
Lower(s) == [i \in 1..Len(s) |-> LowerChar(s[i])]

RECURSIVE LStrip(_)
LStrip(s) ==
    IF s # <<>> /\ IsSpace(Head(s)) THEN LStrip(Tail(s)) ELSE s

RECURSIVE RStrip(_)
RStrip(s) ==
    IF s # <<>> /\ IsSpace(s[Len(s)]) THEN RStrip(SubSeq(s, 1, Len(s) - 1)) ELSE s

\* str.strip()
Strip(s) == RStrip(LStrip(s))

\* Python's `p in s` for strings
IsSubstring(p, s) ==
    \E i \in 0..(Len(s) - Len(p)) : SubSeq(s, i + 1, i + Len(p)) = p

\* number of consecutive digits of s starting at position i
RECURSIVE DigitRun(_, _)
DigitRun(s, i) ==
    IF i <= Len(s) /\ IsDigit(s[i]) THEN 1 + DigitRun(s, i + 1) ELSE 0

\* number of consecutive whitespace characters of s starting at position i
RECURSIVE SpaceRun(_, _)
SpaceRun(s, i) ==
    IF i <= Len(s) /\ IsSpace(s[i]) THEN 1 + SpaceRun(s, i + 1) ELSE 0

Min(a, b) == IF a <= b THEN a ELSE b

\* re.sub(r'#\d+', '', s): scanning from position i
RECURSIVE RemoveStoreNumbersFrom(_, _)
RemoveStoreNumbersFrom(s, i) ==
    IF i > Len(s) THEN <<>>
    ELSE IF s[i] = "#" /\ DigitRun(s, i + 1) >= 1
         THEN RemoveStoreNumbersFrom(s, i + 1 + DigitRun(s, i + 1))
         ELSE <<s[i]>> \o RemoveStoreNumbersFrom(s, i + 1)

RemoveStoreNumbers(s) == RemoveStoreNumbersFrom(s, 1)

IsDateSep(s, i) == i <= Len(s) /\ s[i] \in {"/", "-"}

\* length of the match of \d{1,2}[/-]\d{1,2}[/-]\d{2,4} at position i, 0 if none
DateMatchLen(s, i) ==
    LET a == IF DigitRun(s, i) >= 2 /\ IsDateSep(s, i + 2) THEN 2
             ELSE IF DigitRun(s, i) >= 1 /\ IsDateSep(s, i + 1) THEN 1
             ELSE 0
        j == i + a + 1
        b == IF DigitRun(s, j) >= 2 /\ IsDateSep(s, j + 2) THEN 2
             ELSE IF DigitRun(s, j) >= 1 /\ IsDateSep(s, j + 1) THEN 1
             ELSE 0
        k == j + b + 1
        c == Min(DigitRun(s, k), 4)
    IN  IF a = 0 THEN 0
        ELSE IF b = 0 THEN 0
        ELSE IF c < 2 THEN 0
        ELSE a + 1 + b + 1 + c

\* re.sub(r'\d{1,2}[/-]\d{1,2}[/-]\d{2,4}', '', s): scanning from position i
RECURSIVE RemoveDatesFrom(_, _)
RemoveDatesFrom(s, i) ==
    IF i > Len(s) THEN <<>>
    ELSE IF DateMatchLen(s, i) > 0
         THEN RemoveDatesFrom(s, i + DateMatchLen(s, i))
         ELSE <<s[i]>> \o RemoveDatesFrom(s, i + 1)

RemoveDates(s) == RemoveDatesFrom(s, 1)

\* whether \s+\d+\s*$ matches s starting at position i
TrailingNumberAt(s, i) ==
    LET sp == SpaceRun(s, i)
        dg == DigitRun(s, i + sp)
        tl == SpaceRun(s, i + sp + dg)
    IN  sp >= 1 /\ dg >= 1 /\ i + sp + dg + tl = Len(s) + 1

\* re.sub(r'\s+\d+\s*$', '', s): the leftmost match is removed
RemoveTrailingNumber(s) ==
    IF \E i \in 1..Len(s) : TrailingNumberAt(s, i)
    THEN LET i == CHOOSE i \in 1..Len(s) :
                      /\ TrailingNumberAt(s, i)
                      /\ \A j \in 1..(i - 1) : ~TrailingNumberAt(s, j)
         IN  SubSeq(s, 1, i - 1)
    ELSE s

\* length of the run of non-whitespace characters of s starting at position i
RECURSIVE WordRun(_, _)
WordRun(s, i) ==
    IF i <= Len(s) /\ ~IsSpace(s[i]) THEN 1 + WordRun(s, i + 1) ELSE 0

\* str.split(): the whitespace-separated words of s, from position i on
RECURSIVE SplitFrom(_, _)
SplitFrom(s, i) ==
    IF i > Len(s) THEN <<>>
    ELSE IF IsSpace(s[i]) THEN SplitFrom(s, i + 1)
    ELSE <<SubSeq(s, i, i + WordRun(s, i) - 1)>> \o SplitFrom(s, i + WordRun(s, i))

Split(s) == SplitFrom(s, 1)

\* ' '.join(words)
RECURSIVE Join(_)
Join(words) ==
    IF words = <<>> THEN <<>>
    ELSE IF Len(words) = 1 THEN words[1]
    ELSE words[1] \o <<" ">> \o Join(Tail(words))

\* the number of leading words kept as the merchant name
MaxWords == 4

\* _extract_merchant_pattern without the cut to the first words
ExtractMerchantPatternAllWords(description) ==
    LET p1 == RemoveStoreNumbers(description)
        p2 == RemoveDates(p1)
        p3 == RemoveTrailingNumber(p2)
        p4 == Join(Split(p3))
    IN  Strip(p4)

\* AutoCategorizer._extract_merchant_pattern
ExtractMerchantPattern(description) ==
    LET p1 == RemoveStoreNumbers(description)
        p2 == RemoveDates(p1)
        p3 == RemoveTrailingNumber(p2)
        p4 == Join(Split(p3))
        words == Split(p4)
        p5 == IF Len(words) > MaxWords THEN Join(SubSeq(words, 1, MaxWords)) ELSE p4
    IN  Strip(p5)

(***************************************************************************)
(* fuzz.ratio of fuzzywuzzy: 100 for equal strings, 0 when either is       *)
(* empty, else round(100 * 2*M / T) with M the matched characters and T    *)
(* the sum of the lengths (python-Levenshtein's ratio; Python's round      *)
(* goes to the even neighbour on a tie).                                   *)
(***************************************************************************)
Max(a, b) == IF a >= b THEN a ELSE b

\* length of the longest common subsequence of s and t
RECURSIVE MatchedChars(_, _)
MatchedChars(s, t) ==
    IF s = <<>> \/ t = <<>> THEN 0
    ELSE IF Head(s) = Head(t) THEN 1 + MatchedChars(Tail(s), Tail(t))
    ELSE Max(MatchedChars(Tail(s), t), MatchedChars(s, Tail(t)))

\* int(round(num / den)) for num >= 0, den > 0
RoundDiv(num, den) ==
    LET q == num \div den
        r == num % den
    IN  IF 2 * r > den THEN q + 1
        ELSE IF 2 * r < den THEN q
        ELSE IF q % 2 = 0 THEN q ELSE q + 1

FuzzRatio(s, t) ==
    IF s = t THEN 100
    ELSE IF Len(s) = 0 \/ Len(t) = 0 THEN 0
    ELSE RoundDiv(200 * MatchedChars(s, t), Len(s) + Len(t))

(***************************************************************************)
(* The Categorization Engine (utils/categorization.py).                    *)
(* A rule is [pattern, category_id, match_type, created_date, last_used,   *)
(* use_count]; its _id is its position in rules.                           *)
(***************************************************************************)
\* the least score the fuzzy tier accepts
FuzzyThreshold == 80

\* confidence of an exact hit, in hundredths
ExactConfidence == 100

\* confidence of a contains hit and of a propagated category, in hundredths
ContainsConfidence == 90

NoMatch == [category_id |-> 0, confidence |-> 0, match_type |-> "none"]

\* description.strip().upper()
Clean(description) == Upper(Strip(description))

\* find_one({'pattern': description, 'match_type': 'exact'}): its _id, 0 when none
ExactFind(rs, description) ==
    LET found == {i \in 1..Len(rs) :
                    rs[i].pattern = description /\ rs[i].match_type = "exact"}
    IN  IF found = {} THEN 0
        ELSE CHOOSE i \in found : \A j \in found : i <= j

\* the sort direction reversed: .sort('use_count', 1)
SortsBeforeAscending(rs, i, j) ==
    \/ rs[i].use_count < rs[j].use_count
    \/ rs[i].use_count = rs[j].use_count /\ i < j

\* whether rule i comes before rule j in find(...).sort('use_count', -1)
SortsBefore(rs, i, j) ==
    \/ rs[i].use_count > rs[j].use_count
    \/ rs[i].use_count = rs[j].use_count /\ i < j

\* the loop of _contains_match over the sorted cursor: the _id of the first
\* rule whose upper-cased pattern is in the description, 0 when none
ContainsFind(rs, description) ==
    LET found == {i \in 1..Len(rs) :
                    /\ rs[i].match_type = "contains"
                    /\ IsSubstring(Upper(rs[i].pattern), description)}
    IN  IF found = {} THEN 0
        ELSE CHOOSE i \in found : \A j \in found \ {i} : SortsBefore(rs, i, j)

FuzzyScore(rs, i, description) == FuzzRatio(Upper(rs[i].pattern), description)

\* the loop of _fuzzy_match replacing the best on an equal score: the last
\* rule with the highest score
FuzzyBestLast(rs, description) ==
    LET fz == {i \in 1..Len(rs) : rs[i].match_type = "fuzzy"}
        scored == {i \in fz : FuzzyScore(rs, i, description) > 0}
    IN  IF scored = {} THEN 0
        ELSE CHOOSE i \in scored :
                \A j \in scored \ {i} :
                    \/ FuzzyScore(rs, i, description) > FuzzyScore(rs, j, description)
                    \/ /\ FuzzyScore(rs, i, description) = FuzzyScore(rs, j, description)
                       /\ i > j

\* the loop of _fuzzy_match: the first rule with the highest score (a later
\* rule replaces the best only with a strictly higher score), 0 when every
\* score is 0 or there is no fuzzy rule
FuzzyBest(rs, description) ==
    LET fz == {i \in 1..Len(rs) : rs[i].match_type = "fuzzy"}
        scored == {i \in fz : FuzzyScore(rs, i, description) > 0}
    IN  IF scored = {} THEN 0
        ELSE CHOOSE i \in scored :
                \A j \in scored \ {i} :
                    \/ FuzzyScore(rs, i, description) > FuzzyScore(rs, j, description)
                    \/ /\ FuzzyScore(rs, i, description) = FuzzyScore(rs, j, description)
                       /\ i < j

\* _fuzzy_match's acceptance test: the _id accepted, 0 when none
FuzzyFind(rs, description) ==
    LET b == FuzzyBest(rs, description)
    IN  IF b # 0 /\ FuzzyScore(rs, b, description) >= FuzzyThreshold THEN b ELSE 0

ExactResult(rs, i) ==
    [category_id |-> rs[i].category_id, confidence |-> ExactConfidence,
     match_type |-> "exact"]

\* a contains result built without the rule's category
ContainsResultUncategorized(rs, i) ==
    [category_id |-> 0, confidence |-> ContainsConfidence, match_type |-> "contains"]

ContainsResult(rs, i) ==
    [category_id |-> rs[i].category_id, confidence |-> ContainsConfidence,
     match_type |-> "contains"]

FuzzyResult(rs, i, description) ==
    [category_id |-> rs[i].category_id,
     confidence |-> FuzzyScore(rs, i, description),
     match_type |-> "fuzzy"]

\* the usage update addressed by pattern instead of _id:
\* update_many({'pattern': ...}, {$set: last_used, $inc: use_count})
UpdateRuleUsageByPattern(rs, i, t) ==
    [k \in 1..Len(rs) |->
        IF rs[k].pattern = rs[i].pattern
        THEN [rs[k] EXCEPT !.last_used = t, !.use_count = @ + 1]
        ELSE rs[k]]

\* _update_rule_usage: update_one({'_id': i}, {$set: last_used, $inc: use_count})
UpdateRuleUsage(rs, i, t) ==
    [rs EXCEPT ![i].last_used = t, ![i].use_count = @ + 1]

\* the contains tier tried before the exact tier
CategorizeHitContainsFirst(rs, description) ==
    LET d == Clean(description)
        e == ExactFind(rs, d)
        c == ContainsFind(rs, d)
        f == FuzzyFind(rs, d)
    IN  IF c # 0 THEN [rule |-> c, res |-> ContainsResult(rs, c)]
        ELSE IF e # 0 THEN [rule |-> e, res |-> ExactResult(rs, e)]
        ELSE IF f # 0 THEN [rule |-> f, res |-> FuzzyResult(rs, f, d)]
        ELSE [rule |-> 0, res |-> NoMatch]

\* AutoCategorizer.categorize run without interruption: the rule it hits
\* (0 when none) and the result it returns
CategorizeHit(rs, description) ==
    LET d == Clean(description)
        e == ExactFind(rs, d)
        c == ContainsFind(rs, d)
        f == FuzzyFind(rs, d)
    IN  IF e # 0 THEN [rule |-> e, res |-> ExactResult(rs, e)]
        ELSE IF c # 0 THEN [rule |-> c, res |-> ContainsResult(rs, c)]
        ELSE IF f # 0 THEN [rule |-> f, res |-> FuzzyResult(rs, f, d)]
        ELSE [rule |-> 0, res |-> NoMatch]

CategorizeRules(rs, description, t) ==
    LET h == CategorizeHit(rs, description)
    IN  IF h.rule = 0 THEN rs ELSE UpdateRuleUsage(rs, h.rule, t)

\* the lookup made with the cleaned description instead of the merchant pattern
LearnFindByDescription(rs, description) ==
    LET found == {i \in 1..Len(rs) :
                    rs[i].pattern = Clean(description) /\ rs[i].match_type = "contains"}
    IN  IF found = {} THEN 0
        ELSE CHOOSE i \in found : \A j \in found : i <= j

\* learn_from_categorization's find_one({'pattern': merchant_pattern,
\* 'match_type': 'contains'}): its _id, 0 when none
LearnFind(rs, description) ==
    LET merchant_pattern == ExtractMerchantPattern(Clean(description))
        found == {i \in 1..Len(rs) :
                    rs[i].pattern = merchant_pattern /\ rs[i].match_type = "contains"}
    IN  IF found = {} THEN 0
        ELSE CHOOSE i \in found : \A j \in found : i <= j

NewRule(description, category_id, t) ==
    [pattern |-> ExtractMerchantPattern(Clean(description)),
     category_id |-> category_id,
     match_type |-> "contains",
     created_date |-> t,
     last_used |-> t,
     use_count |-> 1]

\* a write that leaves an existing rule as it is: the first category learned
\* for a pattern stays
LearnWriteKeepFirst(rs, existing, existing_category_id, description, category_id, t) ==
    IF existing # 0 THEN rs
    ELSE Append(rs, NewRule(description, category_id, t))

\* a write that counts every learn of an existing rule as a use, whether or
\* not the category changes
LearnWriteAlwaysBump(rs, existing, existing_category_id, description, category_id, t) ==
    IF existing # 0
    THEN [rs EXCEPT ![existing].category_id = category_id,
                    ![existing].last_used = t,
                    ![existing].use_count = @ + 1]
    ELSE Append(rs, NewRule(description, category_id, t))

\* the write of learn_from_categorization, given what its find_one returned:
\* existing is the _id found (0 when none) and existing_category_id the
\* category_id of the document as it was read
LearnWrite(rs, existing, existing_category_id, description, category_id, t) ==
    IF existing # 0
    THEN IF existing_category_id # category_id
         THEN [rs EXCEPT ![existing].category_id = category_id,
                         ![existing].last_used = t,
                         ![existing].use_count = @ + 1]
         ELSE rs
    ELSE Append(rs, NewRule(description, category_id, t))

\* learn_from_categorization run without interruption
LearnRules(rs, description, category_id, t) ==
    LET existing == LearnFind(rs, description)
    IN  LearnWrite(rs, existing,
                   IF existing = 0 THEN 0 ELSE rs[existing].category_id,
                   description, category_id, t)

\* the rule learn_from_categorization returns: the document as find_one read
\* it, or the new rule
LearnReturn(rs, description, category_id, t) ==
    LET existing == LearnFind(rs, description)
    IN  IF existing # 0 THEN rs[existing] ELSE NewRule(description, category_id, t)

\* the find without the category_id 0 filter: every transaction whose
\* description matches the merchant pattern
BatchFindAnyCategory(txns, description) ==
    LET merchant_pattern == ExtractMerchantPattern(Clean(description))
    IN  {i \in 1..Len(txns) :
            IsSubstring(Lower(merchant_pattern), Lower(txns[i].description))}

\* batch_categorize_similar's find: the _ids of the transactions with
\* category_id 0 whose description matches the escaped merchant pattern,
\* case-insensitively
BatchFind(txns, description) ==
    LET merchant_pattern == ExtractMerchantPattern(Clean(description))
    IN  {i \in 1..Len(txns) :
            /\ txns[i].category_id = 0
            /\ IsSubstring(Lower(merchant_pattern), Lower(txns[i].description))}

BatchSet(txn, category_id) ==
    [txn EXCEPT !.category_id = category_id,
                !.auto_categorized = TRUE,
                !.confidence = ContainsConfidence]

\* batch_categorize_similar's update_many({'_id': {'$in': transaction_ids}}, $set)
BatchWrite(txns, transaction_ids, category_id) ==
    [i \in 1..Len(txns) |->
        IF i \in transaction_ids THEN BatchSet(txns[i], category_id) ELSE txns[i]]

\* result.matched_count returned in place of result.modified_count
MatchedCount(txns, transaction_ids, category_id) ==
    Cardinality(transaction_ids \cap (1..Len(txns)))

\* result.modified_count: the documents the update changed
ModifiedCount(txns, transaction_ids, category_id) ==
    Cardinality({i \in transaction_ids \cap (1..Len(txns)) :
                    BatchSet(txns[i], category_id) # txns[i]})

(***************************************************************************)
(* Inputs and bounds.                                                      *)
(***************************************************************************)
\* the clock stops the model after this many completed calls
MaxClock == 3

\* descriptions handed to the engine: "A", "a #1 B" and "#1"
Descs == { <<"A">>, <<"a", " ", "#", "1", " ", "B">>, <<"#", "1">> }

\* category ids handed to the engine
CatIds == {0, 1, 2}

\* the ids of the default categories of init_db
DefaultCategoryIds == {0, 1, 2, 3, 4, 5, 6}

\* the default categories that init_db inserts into an empty database
DefaultCategories ==
    << [id |-> 0, name |-> "Uncategorized"],
       [id |-> 1, name |-> "Groceries"],
       [id |-> 2, name |-> "Gas"],
       [id |-> 3, name |-> "Restaurants"],
       [id |-> 4, name |-> "Entertainment"],
       [id |-> 5, name |-> "Utilities"],
       [id |-> 6, name |-> "Investment"] >>

\* validate_category_id: a non-negative integer that is the id of a category
ValidateCategoryId(category_id, cats) ==
    /\ category_id >= 0
    /\ \E i \in 1..Len(cats) : cats[i].id = category_id

NoRule ==
    [pattern |-> <<>>, category_id |-> 0, match_type |-> "none",
     created_date |-> 0, last_used |-> 0, use_count |-> 0]

NoCall ==
    [op |-> "none", d |-> <<>>, c |-> 0, res |-> NoMatch, n |-> 0, rule |-> NoRule]

Call(op, d, c, res, n, rule) ==
    [op |-> op, d |-> d, c |-> c, res |-> res, n |-> n, rule |-> rule]

\* a float: a finite number in hundredths, or NaN
Finite(n) == [kind |-> "finite", hundredths |-> n]

NaN == [kind |-> "nan", hundredths |-> 0]

\* parse_amount not called yet
NoAmount == [called |-> FALSE, ok |-> FALSE, amount |-> Finite(0)]

\* no file submitted
NoFile == [headers |-> <<>>, rows |-> <<>>]

NoParse ==
    [op |-> "none", status |-> "none", code |-> "none", transactions |-> <<>>,
     errors |-> <<>>, row_count |-> 0, categorized |-> 0, uncategorized |-> 0]

\* the date of the transactions made through the API
SomeDate == <<"1", "/", "1", "/", "1", "1">>

\* Transaction.create: the document built for a new transaction
NewTransaction(date, description, amount, category_id, auto_categorized, confidence) ==
    [date |-> date,
     description |-> Strip(description),
     amount |-> amount,
     category_id |-> category_id,
     auto_categorized |-> auto_categorized,
     confidence |-> confidence,
     notes |-> <<>>]

(***************************************************************************)
(* The engine's operations, each run without interruption.                 *)
(***************************************************************************)
\* AutoCategorizer.categorize(description)
Categorize(description) ==
    /\ now < MaxClock
    /\ now' = now + 1
    /\ rules' = CategorizeRules(rules, description, now + 1)
    /\ prev' = last
    /\ last' = Call("categorize", description, 0,
                    CategorizeHit(rules, description).res, 0, NoRule)
    /\ UNCHANGED <<transactions, uploads, categories, pc, loc, hits, file, parsed,
                   amount_string, amount_result>>

\* AutoCategorizer.learn_from_categorization(description, category_id)
Learn(description, category_id) ==
    /\ now < MaxClock
    /\ now' = now + 1
    /\ rules' = LearnRules(rules, description, category_id, now + 1)
    /\ prev' = last
    /\ last' = Call("learn", description, category_id, NoMatch, 0,
                    LearnReturn(rules, description, category_id, now + 1))
    /\ UNCHANGED <<transactions, uploads, categories, pc, loc, hits, file, parsed,
                   amount_string, amount_result>>

\* AutoCategorizer.batch_categorize_similar(description, category_id)
BatchCategorizeSimilar(description, category_id) ==
    LET transaction_ids == BatchFind(transactions, description)
    IN  /\ now < MaxClock
        /\ now' = now + 1
        /\ transactions' =
              IF transaction_ids = {} THEN transactions
              ELSE BatchWrite(transactions, transaction_ids, category_id)
        /\ prev' = last
        /\ last' = Call("batch", description, category_id, NoMatch,
                        IF transaction_ids = {} THEN 0
                        ELSE ModifiedCount(transactions, transaction_ids, category_id),
                        NoRule)
        /\ UNCHANGED <<rules, uploads, categories, pc, loc, hits, file, parsed,
                   amount_string, amount_result>>

\* create_transaction: POST /transactions with a description and a category_id
CreateTransaction(description, category_id) ==
    /\ now < MaxClock
    /\ now' = now + 1
    /\ prev' = last
    /\ IF ValidateCategoryId(category_id, categories)
       THEN /\ transactions' = Append(transactions,
                                  NewTransaction(SomeDate, description, Finite(0), category_id, FALSE, 0))
            /\ last' = Call("create_transaction", description, category_id,
                            NoMatch, 201, NoRule)
       ELSE /\ transactions' = transactions
            /\ last' = Call("create_transaction", description, category_id,
                            NoMatch, 400, NoRule)
    /\ UNCHANGED <<rules, uploads, categories, pc, loc, hits, file, parsed,
                   amount_string, amount_result>>

\* the state after init_db on an empty database
Init ==
    /\ rules = <<>>
    /\ transactions = <<>>
    /\ uploads = <<>>
    /\ categories = DefaultCategories
    /\ now = 0
    /\ last = NoCall
    /\ prev = NoCall
    /\ pc = <<>>
    /\ loc = <<>>
    /\ hits = <<>>
    /\ file = NoFile
    /\ parsed = NoParse
    /\ amount_string = <<>>
    /\ amount_result = NoAmount

Next ==
    \/ \E d \in Descs : Categorize(d)
    \/ \E d \in Descs, c \in CatIds : Learn(d, c)
    \/ \E d \in Descs, c \in CatIds : BatchCategorizeSimilar(d, c)
    \/ \E d \in Descs, c \in {0, 1, 9} : CreateTransaction(d, c)

\* calls to the engine and to create_transaction, one at a time, from an
\* empty rule store
Spec == Init /\ [][Next]_vars

(***************************************************************************)
(* Classification over rule stores that hold rules of every match type.    *)
(***************************************************************************)
\* the largest rule store the classification is started from
MaxSeedRules == 3

SeedRule(pattern, category_id, match_type, use_count) ==
    [pattern |-> pattern, category_id |-> category_id, match_type |-> match_type,
     created_date |-> 0, last_used |-> 0, use_count |-> use_count]

\* rules a store may hold: exact, contains and fuzzy ones, some matching the
\* descriptions of Descs, some not, some with a pattern kept in lower case
RulePool ==
    { SeedRule(<<"A">>, 1, "exact", 1),
      SeedRule(<<"A", " ", "#", "1", " ", "B">>, 2, "exact", 1),
      SeedRule(<<"A">>, 1, "contains", 1),
      SeedRule(<<"a">>, 2, "contains", 2),
      SeedRule(<<"B">>, 2, "contains", 1),
      SeedRule(<<"#", "1">>, 1, "contains", 2),
      SeedRule(<<"A", " ", "#", "1", "B">>, 1, "fuzzy", 1),
      SeedRule(<<"A", "#", "1", " ", "B">>, 2, "fuzzy", 1),
      SeedRule(<<"A", " ", "#", "B">>, 2, "fuzzy", 1),
      SeedRule(<<"A", " ", "#", "1", "B", "C", "C">>, 1, "fuzzy", 1) }

SeedStores ==
    UNION { [1..n -> RulePool] : n \in 0..MaxSeedRules }

InitStore ==
    /\ rules \in SeedStores
    /\ transactions = <<>>
    /\ uploads = <<>>
    /\ categories = DefaultCategories
    /\ now = 0
    /\ last = NoCall
    /\ prev = NoCall
    /\ pc = <<>>
    /\ loc = <<>>
    /\ hits = <<>>
    /\ file = NoFile
    /\ parsed = NoParse
    /\ amount_string = <<>>
    /\ amount_result = NoAmount

NextStore == \E d \in Descs : Categorize(d)

\* classification calls, one at a time, from any seeded rule store
SpecStore == InitStore /\ [][NextStore]_vars

(***************************************************************************)
(* Concurrent requests.  Each request is a sequence of steps, one per      *)
(* database call; the steps of different requests interleave freely.       *)
(* A request is either AutoCategorizer.categorize (as run by an upload) or *)
(* update_transaction, which runs learn_from_categorization and            *)
(* batch_categorize_similar.                                               *)
(***************************************************************************)
\* the number of requests in flight
NumProcs == 2

Procs == 1..NumProcs

\* descriptions classified by the concurrent requests: "A" and "a #1 B"
ConcDescs == { <<"A">>, <<"a", " ", "#", "1", " ", "B">> }

\* category ids sent by the concurrent update requests
ConcCatIds == {1, 2}

NoLoc ==
    [op |-> "none", d |-> <<>>, c |-> 0, tid |-> 0, rule |-> 0, doc |-> NoRule,
     res |-> NoMatch, ids |-> {}]

AllDone == \A p \in Procs : pc[p] \in {"idle", "done"}

\* whether another request has read rule i and not yet issued its update
Pending(p, i) ==
    \E q \in Procs \ {p} :
        /\ loc[q].rule = i
        /\ \/ pc[q] = "cat_update"
           \/ pc[q] = "learn_write" /\ loc[q].rule # 0

\* hits with one more usage update decided against rule i by request p
Hit(p, i) ==
    [hits EXCEPT ![i] = [n |-> @.n + 1, raced |-> @.raced \/ Pending(p, i)]]

Finish(p, call) ==
    /\ pc' = [pc EXCEPT ![p] = "done"]
    /\ prev' = last
    /\ last' = call

\* a request enters AutoCategorizer.categorize(d)
StartCategorize(p, d) ==
    /\ pc[p] = "idle"
    /\ pc' = [pc EXCEPT ![p] = "cat_exact"]
    /\ loc' = [loc EXCEPT ![p] = [NoLoc EXCEPT !.op = "categorize", !.d = d]]
    /\ UNCHANGED <<rules, transactions, uploads, categories, now, last, prev, hits, file, parsed,
                   amount_string, amount_result>>

\* _exact_match: find_one
CatExact(p) ==
    /\ pc[p] = "cat_exact"
    /\ LET i == ExactFind(rules, Clean(loc[p].d))
       IN  IF i # 0
           THEN /\ pc' = [pc EXCEPT ![p] = "cat_update"]
                /\ loc' = [loc EXCEPT ![p].rule = i, ![p].doc = rules[i],
                                      ![p].res = ExactResult(rules, i)]
                /\ hits' = Hit(p, i)
           ELSE /\ pc' = [pc EXCEPT ![p] = "cat_contains"]
                /\ UNCHANGED <<loc, hits, file, parsed, amount_string, amount_result>>
    /\ UNCHANGED <<rules, transactions, uploads, categories, now, last, prev, file, parsed,
                   amount_string, amount_result>>

\* _contains_match: find().sort() and the loop over the cursor
CatContains(p) ==
    /\ pc[p] = "cat_contains"
    /\ LET i == ContainsFind(rules, Clean(loc[p].d))
       IN  IF i # 0
           THEN /\ pc' = [pc EXCEPT ![p] = "cat_update"]
                /\ loc' = [loc EXCEPT ![p].rule = i, ![p].doc = rules[i],
                                      ![p].res = ContainsResult(rules, i)]
                /\ hits' = Hit(p, i)
           ELSE /\ pc' = [pc EXCEPT ![p] = "cat_fuzzy"]
                /\ UNCHANGED <<loc, hits, file, parsed, amount_string, amount_result>>
    /\ UNCHANGED <<rules, transactions, uploads, categories, now, last, prev, file, parsed,
                   amount_string, amount_result>>

\* _fuzzy_match: find() and the loop over the cursor; no hit ends categorize
CatFuzzy(p) ==
    /\ pc[p] = "cat_fuzzy"
    /\ LET i == FuzzyFind(rules, Clean(loc[p].d))
       IN  IF i # 0
           THEN /\ pc' = [pc EXCEPT ![p] = "cat_update"]
                /\ loc' = [loc EXCEPT ![p].rule = i, ![p].doc = rules[i],
                                      ![p].res = FuzzyResult(rules, i, Clean(loc[p].d))]
                /\ hits' = Hit(p, i)
                /\ UNCHANGED <<last, prev, file, parsed, amount_string, amount_result>>
           ELSE /\ Finish(p, Call("categorize", loc[p].d, 0, NoMatch, 0, NoRule))
                /\ UNCHANGED <<loc, hits, file, parsed, amount_string, amount_result>>
    /\ UNCHANGED <<rules, transactions, uploads, categories, now, file, parsed,
                   amount_string, amount_result>>

\* the usage update written from the document as it was read:
\* $set use_count to the read value plus one
CatUpdateFromRead(p) ==
    /\ pc[p] = "cat_update"
    /\ now' = now + 1
    /\ rules' = [rules EXCEPT ![loc[p].rule].last_used = now + 1,
                              ![loc[p].rule].use_count = loc[p].doc.use_count + 1]
    /\ Finish(p, Call("categorize", loc[p].d, 0, loc[p].res, 0, NoRule))
    /\ UNCHANGED <<transactions, uploads, categories, loc, hits, file, parsed,
                   amount_string, amount_result>>

\* _update_rule_usage(rule['_id']) and the return of the tier that hit
CatUpdate(p) ==
    /\ pc[p] = "cat_update"
    /\ now' = now + 1
    /\ rules' = UpdateRuleUsage(rules, loc[p].rule, now + 1)
    /\ Finish(p, Call("categorize", loc[p].d, 0, loc[p].res, 0, NoRule))
    /\ UNCHANGED <<transactions, uploads, categories, loc, hits, file, parsed,
                   amount_string, amount_result>>

\* a request enters update_transaction(tid) with body {"category_id": c}
StartUpdate(p, tid, c) ==
    /\ pc[p] = "idle"
    /\ pc' = [pc EXCEPT ![p] = "upd_check"]
    /\ loc' = [loc EXCEPT ![p] = [NoLoc EXCEPT !.op = "update", !.tid = tid, !.c = c]]
    /\ UNCHANGED <<rules, transactions, uploads, categories, now, last, prev, hits, file, parsed,
                   amount_string, amount_result>>

\* validate_update_request: find_one({'_id': object_id})
UpdCheck(p) ==
    /\ pc[p] = "upd_check"
    /\ IF loc[p].tid \in 1..Len(transactions)
       THEN /\ pc' = [pc EXCEPT ![p] = "upd_category"]
            /\ UNCHANGED <<last, prev, file, parsed, amount_string, amount_result>>
       ELSE Finish(p, Call("update", <<>>, loc[p].c, NoMatch, 404, NoRule))
    /\ UNCHANGED <<rules, transactions, uploads, categories, now, loc, hits, file, parsed,
                   amount_string, amount_result>>

\* validate_category_id: categories.find_one({'id': category_id})
UpdCategory(p) ==
    /\ pc[p] = "upd_category"
    /\ IF ValidateCategoryId(loc[p].c, categories)
       THEN /\ pc' = [pc EXCEPT ![p] = "upd_write"]
            /\ UNCHANGED <<last, prev, file, parsed, amount_string, amount_result>>
       ELSE Finish(p, Call("update", <<>>, loc[p].c, NoMatch, 400, NoRule))
    /\ UNCHANGED <<rules, transactions, uploads, categories, now, loc, hits, file, parsed,
                   amount_string, amount_result>>

\* transactions.update_one({'_id': object_id}, {'$set': update_doc})
UpdWrite(p) ==
    /\ pc[p] = "upd_write"
    /\ transactions' = [transactions EXCEPT ![loc[p].tid].category_id = loc[p].c]
    /\ pc' = [pc EXCEPT ![p] = "upd_fetch"]
    /\ UNCHANGED <<rules, uploads, categories, now, last, prev, loc, hits, file, parsed,
                   amount_string, amount_result>>

\* updated_transaction = find_one(...), then the test that leads to learning
UpdFetch(p) ==
    /\ pc[p] = "upd_fetch"
    /\ loc' = [loc EXCEPT ![p].d = transactions[loc[p].tid].description]
    /\ IF loc[p].c # 0
       THEN /\ pc' = [pc EXCEPT ![p] = "learn_find"]
            /\ UNCHANGED <<last, prev, file, parsed, amount_string, amount_result>>
       ELSE Finish(p, Call("update", transactions[loc[p].tid].description,
                           loc[p].c, NoMatch, 0, NoRule))
    /\ UNCHANGED <<rules, transactions, uploads, categories, now, hits, file, parsed,
                   amount_string, amount_result>>

\* learn_from_categorization: find_one and the comparison of category_id
LearnFindStep(p) ==
    /\ pc[p] = "learn_find"
    /\ LET existing == LearnFind(rules, loc[p].d)
       IN  IF existing = 0
           THEN /\ pc' = [pc EXCEPT ![p] = "learn_write"]
                /\ loc' = [loc EXCEPT ![p].rule = 0, ![p].doc = NoRule]
                /\ hits' = hits
           ELSE IF rules[existing].category_id # loc[p].c
           THEN /\ pc' = [pc EXCEPT ![p] = "learn_write"]
                /\ loc' = [loc EXCEPT ![p].rule = existing, ![p].doc = rules[existing]]
                /\ hits' = Hit(p, existing)
           ELSE /\ pc' = [pc EXCEPT ![p] = "batch_find"]
                /\ loc' = [loc EXCEPT ![p].rule = existing, ![p].doc = rules[existing]]
                /\ hits' = hits
    /\ UNCHANGED <<rules, transactions, uploads, categories, now, last, prev, file, parsed,
                   amount_string, amount_result>>

\* learn_from_categorization: update_one of the rule read, or insert_one
LearnWriteStep(p) ==
    /\ pc[p] = "learn_write"
    /\ now' = now + 1
    /\ rules' = LearnWrite(rules, loc[p].rule, loc[p].doc.category_id,
                           loc[p].d, loc[p].c, now + 1)
    /\ hits' = IF loc[p].rule = 0
               THEN Append(hits, [n |-> 0, raced |-> FALSE])
               ELSE hits
    /\ pc' = [pc EXCEPT ![p] = "batch_find"]
    /\ UNCHANGED <<transactions, uploads, categories, last, prev, loc, file, parsed,
                   amount_string, amount_result>>

\* batch_categorize_similar: find of the uncategorized matching transactions
BatchFindStep(p) ==
    /\ pc[p] = "batch_find"
    /\ LET transaction_ids == BatchFind(transactions, loc[p].d)
       IN  IF transaction_ids = {}
           THEN /\ Finish(p, Call("update", loc[p].d, loc[p].c, NoMatch, 0, NoRule))
                /\ loc' = loc
           ELSE /\ pc' = [pc EXCEPT ![p] = "batch_write"]
                /\ loc' = [loc EXCEPT ![p].ids = transaction_ids]
                /\ UNCHANGED <<last, prev, file, parsed, amount_string, amount_result>>
    /\ UNCHANGED <<rules, transactions, uploads, categories, now, hits, file, parsed,
                   amount_string, amount_result>>

\* batch_categorize_similar: update_many on the ids read, and the return of
\* update_transaction with batch_categorized
BatchWriteStep(p) ==
    /\ pc[p] = "batch_write"
    /\ transactions' = BatchWrite(transactions, loc[p].ids, loc[p].c)
    /\ Finish(p, Call("update", loc[p].d, loc[p].c, NoMatch,
                      ModifiedCount(transactions, loc[p].ids, loc[p].c), NoRule))
    /\ UNCHANGED <<rules, uploads, categories, now, loc, hits, file, parsed,
                   amount_string, amount_result>>

\* two uncategorized transactions created by create_transaction, and either
\* no rule or the rule learned from "A" for category 1
InitConc ==
    /\ rules \in { <<>>, <<NewRule(<<"A">>, 1, 0)>> }
    /\ transactions = << NewTransaction(SomeDate, <<"A">>, Finite(0), 0, FALSE, 0),
                         NewTransaction(SomeDate, <<"a", " ", "#", "1", " ", "B">>, Finite(0), 0,
                                        FALSE, 0) >>
    /\ uploads = <<>>
    /\ categories = DefaultCategories
    /\ now = 0
    /\ last = NoCall
    /\ prev = NoCall
    /\ pc = [p \in Procs |-> "idle"]
    /\ loc = [p \in Procs |-> NoLoc]
    /\ hits = [i \in 1..Len(rules) |-> [n |-> 0, raced |-> FALSE]]
    /\ file = NoFile
    /\ parsed = NoParse
    /\ amount_string = <<>>
    /\ amount_result = NoAmount

NextConc ==
    \E p \in Procs :
        \/ \E d \in ConcDescs : StartCategorize(p, d)
        \/ CatExact(p)
        \/ CatContains(p)
        \/ CatFuzzy(p)
        \/ CatUpdate(p)
        \/ \E tid \in 1..Len(transactions), c \in ConcCatIds : StartUpdate(p, tid, c)
        \/ UpdCheck(p)
        \/ UpdCategory(p)
        \/ UpdWrite(p)
        \/ UpdFetch(p)
        \/ LearnFindStep(p)
        \/ LearnWriteStep(p)
        \/ BatchFindStep(p)
        \/ BatchWriteStep(p)

\* NumProcs requests, each made once, their database calls interleaved
SpecConc == InitConc /\ [][NextConc]_vars

(***************************************************************************)
(* CSV ingestion (utils/csv_parser.py).  A file is its header row and its  *)
(* non-blank data rows as csv.DictReader yields them; a header is a        *)
(* string, a cell is a text.  A value read from a row is a text or None.   *)
(***************************************************************************)
DATE_COLUMNS ==
    <<"date", "transaction date", "trans date", "posted date", "posting date">>

DESCRIPTION_COLUMNS ==
    <<"description", "merchant", "memo", "transaction", "payee", "details",
      "description 1">>

AMOUNT_COLUMNS ==
    <<"amount", "debit", "credit", "transaction amount", "value", "cad$", "usd$">>

\* h.lower().strip() on the header names the model uses
HeaderLower(h) ==
    CASE h = "Date" -> "date"
      [] h = " date " -> "date"
      [] h = "Transaction Date" -> "transaction date"
      [] h = "Description" -> "description"
      [] h = "Description 1" -> "description 1"
      [] h = "MEMO" -> "memo"
      [] h = "Amount" -> "amount"
      [] h = " amount " -> "amount"
      [] h = "Debit" -> "debit"
      [] h = "CAD$" -> "cad$"
      [] h = "USD$" -> "usd$"
      [] h = "Wrong" -> "wrong"
      [] h = "Headers" -> "headers"
      [] OTHER -> h

\* the value of a missing column name (Python's None)
NoColumn == "<None>"

\* list.index: the first position of name among the lower-cased headers
HeaderIndex(headers, name) ==
    CHOOSE i \in 1..Len(headers) :
        /\ HeaderLower(headers[i]) = name
        /\ \A j \in 1..(i - 1) : HeaderLower(headers[j]) # name

InHeaders(headers, name) ==
    \E i \in 1..Len(headers) : HeaderLower(headers[i]) = name

\* CSVParser.find_column, trying possible_names from position k on
RECURSIVE FindColumnFrom(_, _, _)
FindColumnFrom(headers, possible_names, k) ==
    IF k > Len(possible_names) THEN NoColumn
    ELSE IF InHeaders(headers, possible_names[k])
         THEN headers[HeaderIndex(headers, possible_names[k])]
         ELSE FindColumnFrom(headers, possible_names, k + 1)

FindColumn(headers, possible_names) == FindColumnFrom(headers, possible_names, 1)

\* the amount columns of detect_columns, in the order of AMOUNT_COLUMNS
RECURSIVE AmountColsFrom(_, _)
AmountColsFrom(headers, k) ==
    IF k > Len(AMOUNT_COLUMNS) THEN <<>>
    ELSE IF InHeaders(headers, AMOUNT_COLUMNS[k])
         THEN <<headers[HeaderIndex(headers, AMOUNT_COLUMNS[k])]>>
                  \o AmountColsFrom(headers, k + 1)
         ELSE AmountColsFrom(headers, k + 1)

Mapping(ok, date, description, amount, amount_columns) ==
    [ok |-> ok, date |-> date, description |-> description,
     amount |-> amount, amount_columns |-> amount_columns]

\* a detect_columns that accepts headers without an amount column
DetectColumnsAmountOptional(headers) ==
    LET date_col == FindColumn(headers, DATE_COLUMNS)
        desc_col == FindColumn(headers, DESCRIPTION_COLUMNS)
        amount_cols == AmountColsFrom(headers, 1)
    IN  IF date_col = NoColumn THEN Mapping(FALSE, NoColumn, NoColumn, NoColumn, <<>>)
        ELSE IF desc_col = NoColumn
             THEN Mapping(FALSE, NoColumn, NoColumn, NoColumn, <<>>)
        ELSE IF Len(amount_cols) <= 1
             THEN Mapping(TRUE, date_col, desc_col,
                          IF amount_cols = <<>> THEN NoColumn ELSE amount_cols[1], <<>>)
        ELSE Mapping(TRUE, date_col, desc_col, NoColumn, amount_cols)

\* CSVParser.detect_columns: ok is FALSE where the code raises ValueError
DetectColumns(headers) ==
    LET date_col == FindColumn(headers, DATE_COLUMNS)
        desc_col == FindColumn(headers, DESCRIPTION_COLUMNS)
        amount_cols == AmountColsFrom(headers, 1)
    IN  IF date_col = NoColumn THEN Mapping(FALSE, NoColumn, NoColumn, NoColumn, <<>>)
        ELSE IF desc_col = NoColumn
             THEN Mapping(FALSE, NoColumn, NoColumn, NoColumn, <<>>)
        ELSE IF amount_cols = <<>>
             THEN Mapping(FALSE, NoColumn, NoColumn, NoColumn, <<>>)
        ELSE IF Len(amount_cols) = 1
             THEN Mapping(TRUE, date_col, desc_col, amount_cols[1], <<>>)
        ELSE Mapping(TRUE, date_col, desc_col, NoColumn, amount_cols)

\* a value read from a row: a text, or None for a cell the row does not have
NoneCell == [none |-> TRUE, text |-> <<>>]

Cell(text) == [none |-> FALSE, text |-> text]

\* Python truthiness of a value read from a row
Truthy(v) == ~v.none /\ v.text # <<>>

\* dict construction in csv.DictReader: the last header of that name wins
LastIndex(headers, col) ==
    CHOOSE i \in 1..Len(headers) :
        /\ headers[i] = col
        /\ \A j \in (i + 1)..Len(headers) : headers[j] # col

HasKey(headers, col) == \E i \in 1..Len(headers) : headers[i] = col

\* row[col] for a key of the row: cells beyond the end of a short row are None
RowGet(headers, row, col) ==
    IF LastIndex(headers, col) <= Len(row)
    THEN Cell(row[LastIndex(headers, col)])
    ELSE NoneCell

\* the texts dateutil or one of DATE_FORMATS accepts, among those of the model
ParsableDates == { <<"1", "/", "1", "/", "1", "1">>, <<"2", "/", "2", "/", "1", "1">> }

\* CSVParser.detect_date_format: "ok" with the date, "ValueError", or the
\* AttributeError of None.strip() after dateutil's TypeError was swallowed
DetectDateFormat(v) ==
    IF v.none THEN [kind |-> "AttributeError", date |-> <<>>]
    ELSE IF Strip(v.text) \in ParsableDates THEN [kind |-> "ok", date |-> Strip(v.text)]
    ELSE [kind |-> "ValueError", date |-> <<>>]

\* int(digits)
RECURSIVE DigitsValue(_)
DigitsValue(s) ==
    IF s = <<>> THEN 0
    ELSE 10 * DigitsValue(SubSeq(s, 1, Len(s) - 1))
           + (CHOOSE n \in 0..9 : ToString(n) = s[Len(s)])

Sign(s) == s # <<>> /\ s[1] \in {"+", "-"}

Unsigned(s) == IF Sign(s) THEN Tail(s) ELSE s

\* whether float(s) accepts s as a decimal literal
IsDecimal(s) ==
    LET body == Unsigned(s)
        ip == DigitRun(body, 1)
        dot == IF ip < Len(body) /\ body[ip + 1] = "." THEN 1 ELSE 0
        fp == IF dot = 1 THEN DigitRun(body, ip + 2) ELSE 0
    IN  ip + dot + fp = Len(body) /\ ip + fp >= 1

\* float(s) of a decimal literal of at most two decimals, in hundredths
DecimalValue(s) ==
    LET body == Unsigned(s)
        ip == DigitRun(body, 1)
        fp == DigitRun(body, ip + 2)
        frac == SubSeq(body, ip + 2, ip + 1 + Min(fp, 2))
        magnitude == 100 * DigitsValue(SubSeq(body, 1, ip))
                       + (IF Len(frac) = 1 THEN 10 ELSE 1) * DigitsValue(frac)
    IN  IF s[1] = "-" THEN 0 - magnitude ELSE magnitude

\* whether float(s) accepts s as a not-a-number literal
IsNan(s) == Lower(Unsigned(s)) = <<"n", "a", "n">>

\* -abs(x)
NegAbs(x) ==
    IF x.kind = "nan" THEN NaN
    ELSE Finite(IF x.hundredths < 0 THEN x.hundredths ELSE 0 - x.hundredths)

\* float(s) where it does not raise ValueError; the texts of the model hold
\* no exponent, underscore or infinity literal
Float(s) == IF IsNan(s) THEN NaN ELSE Finite(DecimalValue(s))

\* str.replace(c, '') for each c of chars
Remove(s, chars) ==
    LET Keep(c) == c \notin chars
    IN  SelectSeq(s, Keep)

NullTexts ==
    { <<"n", "u", "l", "l">>, <<"n", "o", "n", "e">>, <<"n", "/", "a">> }

\* CSVParser.parse_amount: ok is FALSE where the code raises ValueError
ParseAmount(v) ==
    LET amount_str == Strip(IF v.none THEN <<"N", "o", "n", "e">> ELSE v.text)
        wrapped == /\ amount_str # <<>>
                   /\ amount_str[1] = "("
                   /\ amount_str[Len(amount_str)] = ")"
        inner == IF wrapped THEN SubSeq(amount_str, 2, Len(amount_str) - 1)
                 ELSE amount_str
        cleaned == Remove(inner, {"$", ",", " "})
        minus == cleaned # <<>> /\ cleaned[1] = "-"
        digits == IF minus THEN Tail(cleaned) ELSE cleaned
        is_negative == wrapped \/ minus
    IN  IF amount_str = <<>> \/ Lower(amount_str) \in NullTexts
        THEN [ok |-> TRUE, amount |-> Finite(0)]
        ELSE IF ~(IsDecimal(digits) \/ IsNan(digits))
             THEN [ok |-> FALSE, amount |-> Finite(0)]
        ELSE [ok |-> TRUE,
              amount |-> IF is_negative THEN NegAbs(Float(digits)) ELSE Float(digits)]

\* the amount of a row with several amount columns: the first non-empty
\* stripped value of amount_columns from position k on, '' when there is
\* none, or the AttributeError of None.strip() on a cell the row lacks
RECURSIVE AmountScan(_, _, _, _)
AmountScan(headers, row, amount_columns, k) ==
    IF k > Len(amount_columns) THEN [kind |-> "ok", v |-> Cell(<<>>)]
    ELSE IF ~HasKey(headers, amount_columns[k])
         THEN AmountScan(headers, row, amount_columns, k + 1)
    ELSE IF RowGet(headers, row, amount_columns[k]).none
         THEN [kind |-> "AttributeError", v |-> NoneCell]
    ELSE IF Strip(RowGet(headers, row, amount_columns[k]).text) # <<>>
         THEN [kind |-> "ok", v |-> Cell(Strip(RowGet(headers, row, amount_columns[k]).text))]
    ELSE AmountScan(headers, row, amount_columns, k + 1)

NoRecord == [date |-> <<>>, description |-> <<>>, amount |-> Finite(0)]

RowResult(kind, txn) == [kind |-> kind, txn |-> txn]

\* CSVParser._parse_row: "record" with the transaction, "none" for a row it
\* skips, "error" for an exception parse_csv catches (ValueError, KeyError),
\* "abort" for one it does not catch (AttributeError)
ParseRow(headers, column_mapping, row) ==
    IF ~HasKey(headers, column_mapping.date) THEN RowResult("error", NoRecord)
    ELSE IF ~HasKey(headers, column_mapping.description) THEN RowResult("error", NoRecord)
    ELSE IF column_mapping.amount_columns = <<>> /\ ~HasKey(headers, column_mapping.amount)
         THEN RowResult("error", NoRecord)
    ELSE
    LET date_str == RowGet(headers, row, column_mapping.date)
        description == RowGet(headers, row, column_mapping.description)
        scan == AmountScan(headers, row, column_mapping.amount_columns, 1)
        amount_str == IF column_mapping.amount_columns # <<>> THEN scan.v
                      ELSE RowGet(headers, row, column_mapping.amount)
        date == DetectDateFormat(date_str)
        amount == ParseAmount(amount_str)
    IN  IF column_mapping.amount_columns # <<>> /\ scan.kind = "AttributeError"
        THEN RowResult("abort", NoRecord)
        ELSE IF ~Truthy(date_str) /\ ~Truthy(description) /\ ~Truthy(amount_str)
             THEN RowResult("none", NoRecord)
        ELSE IF date.kind = "AttributeError" THEN RowResult("abort", NoRecord)
        ELSE IF date.kind = "ValueError" THEN RowResult("error", NoRecord)
        ELSE IF description.none THEN RowResult("abort", NoRecord)
        ELSE IF ~amount.ok THEN RowResult("error", NoRecord)
        ELSE RowResult("record", [date |-> date.date,
                                  description |-> Strip(description.text),
                                  amount |-> amount.amount])

\* the rows csv.DictReader yields: blank lines are passed over
DataRows(f) ==
    LET NonBlank(row) == row # <<>>
    IN  SelectSeq(f.rows, NonBlank)

ParseResult(status, records, errors) ==
    [status |-> status, transactions |-> records, errors |-> errors,
     row_count |-> Len(records)]

\* the row loop of parse_csv from the k-th yielded row on; an error entry
\* is kept as its row number, the header row being row 1
RECURSIVE ParseRows(_, _, _, _, _, _)
ParseRows(headers, column_mapping, rows, k, records, errors) ==
    IF k > Len(rows) THEN ParseResult("ok", records, errors)
    ELSE LET r == ParseRow(headers, column_mapping, rows[k])
         IN  IF r.kind = "abort" THEN ParseResult("AttributeError", <<>>, <<>>)
             ELSE IF r.kind = "record"
                  THEN ParseRows(headers, column_mapping, rows, k + 1,
                                 Append(records, r.txn), errors)
             ELSE IF r.kind = "error"
                  THEN ParseRows(headers, column_mapping, rows, k + 1,
                                 records, Append(errors, k + 1))
             ELSE ParseRows(headers, column_mapping, rows, k + 1, records, errors)

\* CSVParser.parse_csv: status is "ok" when it returns, else the exception
ParseCsvResult(f) ==
    IF f.headers = <<>> THEN ParseResult("ValueError", <<>>, <<>>)
    ELSE IF ~DetectColumns(f.headers).ok THEN ParseResult("ValueError", <<>>, <<>>)
    ELSE ParseRows(f.headers, DetectColumns(f.headers), DataRows(f), 1, <<>>, <<>>)

\* CSVParser.validate_csv: the 'valid' field of its answer
ValidateCsv(f) == f.headers # <<>> /\ DetectColumns(f.headers).ok

\* _process_transactions storing every record as auto-categorized
RECURSIVE ProcessTransactionsAllAuto(_, _, _, _, _, _, _)
ProcessTransactionsAllAuto(records, k, rs, txns, t, categorized_count, uncategorized_count) ==
    IF k > Len(records)
    THEN [rules |-> rs, transactions |-> txns,
          categorized_count |-> categorized_count,
          uncategorized_count |-> uncategorized_count]
    ELSE LET categorization == CategorizeHit(rs, records[k].description).res
             hit == categorization.match_type # "none"
         IN  ProcessTransactionsAllAuto(records, k + 1,
                 CategorizeRules(rs, records[k].description, t),
                 Append(txns, NewTransaction(records[k].date, records[k].description,
                                             records[k].amount, categorization.category_id,
                                             TRUE, categorization.confidence)),
                 t,
                 IF hit THEN categorized_count + 1 ELSE categorized_count,
                 IF hit THEN uncategorized_count ELSE uncategorized_count + 1)

\* _process_transactions from the k-th record on: each record is classified
\* (which bumps the matching rule) and inserted
RECURSIVE ProcessTransactions(_, _, _, _, _, _, _)
ProcessTransactions(records, k, rs, txns, t, categorized_count, uncategorized_count) ==
    IF k > Len(records)
    THEN [rules |-> rs, transactions |-> txns,
          categorized_count |-> categorized_count,
          uncategorized_count |-> uncategorized_count]
    ELSE LET categorization == CategorizeHit(rs, records[k].description).res
             hit == categorization.match_type # "none"
         IN  ProcessTransactions(records, k + 1,
                 CategorizeRules(rs, records[k].description, t),
                 Append(txns, NewTransaction(records[k].date, records[k].description,
                                             records[k].amount, categorization.category_id,
                                             hit, categorization.confidence)),
                 t,
                 IF hit THEN categorized_count + 1 ELSE categorized_count,
                 IF hit THEN uncategorized_count ELSE uncategorized_count + 1)

Answer(op, status, code, result, categorized, uncategorized) ==
    [op |-> op, status |-> status, code |-> code,
     transactions |-> result.transactions, errors |-> result.errors,
     row_count |-> result.row_count,
     categorized |-> categorized, uncategorized |-> uncategorized]

\* the data rows a file may hold at most
MaxRows == 2

D1 == <<"1", "/", "1", "/", "1", "1">>

D2 == <<" ", "2", "/", "2", "/", "1", "1">>

\* header rows: four complete ones (one with two currency columns, one
\* with a repeated name, one with two spellings of a name), three lacking a
\* role, one foreign, one absent
HeaderRows ==
    { <<"Date", "Description", "Amount">>,
      <<"Transaction Date", "Description 1", "CAD$", "USD$">>,
      <<" date ", "MEMO", "Debit", "Debit">>,
      <<"Date", "Description", "Amount", " amount ">>,
      <<"Description", "Amount">>,
      <<"Date", "Amount">>,
      <<"Date", "Description">>,
      <<"Wrong", "Headers">>,
      <<>> }

\* data rows: complete (one that no rule matches), short, empty, blank, and
\* with a bad date or amount
RowPool ==
    { <<D1, <<"A">>, <<"5">>>>,
      <<D2, <<"B">>, <<"5">>>>,
      <<D2, <<"a", " ", "#", "1", " ", "B">>, <<"(", "$", "1", ".", "5", ")">>>>,
      <<D1, <<"A">>, <<>>, <<"-", "2">>>>,
      <<D1, <<"A">>>>,
      <<D1>>,
      <<<<>>>>,
      <<<<>>, <<>>, <<>>>>,
      <<>>,
      <<<<"x">>, <<"A">>, <<"5">>>>,
      <<D1, <<"A">>, <<"x">>>> }

RECURSIVE RowSeqs(_)
RowSeqs(n) ==
    IF n = 0 THEN { <<>> }
    ELSE RowSeqs(n - 1)
           \cup { Append(rs, r) : rs \in {q \in RowSeqs(n - 1) : Len(q) = n - 1},
                                  r \in RowPool }

Files == { [headers |-> h, rows |-> rs] : h \in HeaderRows, rs \in RowSeqs(MaxRows) }

\* CSVParser.parse_csv(file_content)
ParseCsv ==
    /\ now < MaxClock
    /\ now' = now + 1
    /\ parsed' = Answer("parse_csv", ParseCsvResult(file).status, "none",
                        ParseCsvResult(file), 0, 0)
    /\ UNCHANGED <<rules, transactions, uploads, categories, last, prev, pc, loc, hits,
                   file, amount_string, amount_result>>

\* upload_csv: POST /upload/csv with the file under an allowed name; the
\* answer's status is the HTTP status, 500 standing for an unhandled exception
UploadCsv ==
    \E result \in {ParseCsvResult(file)} :
    \E done \in {ProcessTransactions(result.transactions, 1, rules, transactions,
                                     now + 1, 0, 0)} :
    LET Reject(status, code) ==
            /\ parsed' = Answer("upload_csv", status, code,
                                ParseResult("none", <<>>, <<>>), 0, 0)
            /\ UNCHANGED <<rules, transactions, uploads>>
    IN  /\ now < MaxClock
        /\ now' = now + 1
        /\ IF ~ValidateCsv(file) THEN Reject("400", "INVALID_CSV")
           ELSE IF result.status = "ValueError" THEN Reject("400", "PARSE_ERROR")
           ELSE IF result.status = "AttributeError" THEN Reject("500", "UNHANDLED")
           ELSE IF result.row_count = 0 THEN Reject("400", "NO_DATA")
           ELSE /\ rules' = done.rules
                /\ transactions' = done.transactions
                /\ uploads' = Append(uploads,
                      [row_count |-> result.row_count,
                       status |-> "processed",
                       categorized_count |-> done.categorized_count,
                       uncategorized_count |-> done.uncategorized_count,
                       errors |-> result.errors])
                /\ parsed' = Answer("upload_csv", "201", "none", result,
                                    done.categorized_count, done.uncategorized_count)
        /\ UNCHANGED <<categories, last, prev, pc, loc, hits, file, amount_string, amount_result>>

\* a database holding one learned rule, and a file about to be submitted
InitCsv ==
    /\ rules = << NewRule(<<"A">>, 1, 0) >>
    /\ transactions = <<>>
    /\ uploads = <<>>
    /\ categories = DefaultCategories
    /\ now = 0
    /\ last = NoCall
    /\ prev = NoCall
    /\ pc = <<>>
    /\ loc = <<>>
    /\ hits = <<>>
    /\ file \in Files
    /\ parsed = NoParse
    /\ amount_string = <<>>
    /\ amount_result = NoAmount

NextCsv ==
    \/ ParseCsv
    \/ UploadCsv

\* one file, parsed and uploaded up to MaxClock times
SpecCsv == InitCsv /\ [][NextCsv]_vars

(***************************************************************************)
(* parse_amount on its own: one cell, parsed once.                         *)
(***************************************************************************)
\* the longest cell made of AmountChars
MaxAmountLen == 4

AmountChars == {"(", ")", "-", "$", "1", ".", "n", "a", " "}

RECURSIVE Texts(_, _)
Texts(chars, n) ==
    IF n = 0 THEN { <<>> }
    ELSE Texts(chars, n - 1)
           \cup { Append(t, c) : t \in {q \in Texts(chars, n - 1) : Len(q) = n - 1},
                                 c \in chars }

\* cells with a sign inside parentheses, separators, and the null words
NotableAmounts ==
    { <<"(", "-", "1", ".", "5", ")">>,
      <<"(", "$", "1", ",", "0", "0", "0", ")">>,
      <<"-", "$", "1", ".", "5", "0">>,
      <<"+", "1", "0">>,
      <<"(", "-", "0", ")">>,
      <<"N", "U", "L", "L">>,
      <<"N", "o", "n", "e">>,
      <<" ", "N", "/", "A", " ">>,
      <<"(", "n", "/", "a", ")">>,
      <<"-", "n", "u", "l", "l">> }

AmountCells == Texts(AmountChars, MaxAmountLen) \cup NotableAmounts

\* CSVParser.parse_amount(amount_string)
ParseAmountCall ==
    /\ ~amount_result.called
    /\ amount_result' = [called |-> TRUE,
                         ok |-> ParseAmount(Cell(amount_string)).ok,
                         amount |-> ParseAmount(Cell(amount_string)).amount]
    /\ UNCHANGED <<rules, transactions, uploads, categories, now, last, prev, pc, loc,
                   hits, file, parsed, amount_string>>

InitAmount ==
    /\ rules = <<>>
    /\ transactions = <<>>
    /\ uploads = <<>>
    /\ categories = DefaultCategories
    /\ now = 0
    /\ last = NoCall
    /\ prev = NoCall
    /\ pc = <<>>
    /\ loc = <<>>
    /\ hits = <<>>
    /\ file = NoFile
    /\ parsed = NoParse
    /\ amount_string \in AmountCells
    /\ amount_result = NoAmount

NextAmount == ParseAmountCall

\* one amount cell, handed to parse_amount
SpecAmount == InitAmount /\ [][NextAmount]_vars

(***************************************************************************)
(* _extract_merchant_pattern on its own: one description, from which       *)
(* learn_from_categorization and batch_categorize_similar each derive      *)
(* their merchant pattern.                                                 *)
(***************************************************************************)
\* the longest description made of PatternChars
MaxDescLen == 6

PatternChars == {"b", " ", "#", "1", "/"}

\* descriptions of more than four words, with store numbers, dates and
\* trailing numbers between and after the words
NotableDescriptions ==
    { <<"a", " ", "b", " ", "A", " ", "b", " ", "A">>,
      <<" ", "a", " ", " ", "#", "1", "2", " ", "b", " ", "A", " ", "1", "/", "2", "/", "1", "1",
        " ", "b", " ", "A", " ", "7", " ">>,
      <<"A", " ", "#", "1", " ", "1", "/", "1", "/", "1", "1", " ", "b", " ", "A", " ", "b", " ", "#">>,
      <<"A", " ", "b", " ", "A", " ", "b", " ", "9">>,
      <<"#", "1", "2", " ", "1", "2", "-", "1", "-", "2", "0", "1", "1", " ", "3">>,
      <<"A", "#", "1", "/", "1", "/", "1", "1", "1", "1", "1", " ", "b">> }

PatternDescriptions == Texts(PatternChars, MaxDescLen) \cup NotableDescriptions

\* learn_from_categorization's merchant_pattern
LearnMerchantPattern(description) == ExtractMerchantPattern(Clean(description))

\* batch_categorize_similar's merchant_pattern
BatchMerchantPattern(description) == ExtractMerchantPattern(Clean(description))

\* the description about to be handed to the two callers
NoPatterns(d) == [called |-> FALSE, description |-> d, learn |-> <<>>, batch |-> <<>>]

\* the two callers derive their pattern from the description
DerivePatterns ==
    /\ ~loc.called
    /\ loc' = [called |-> TRUE,
               description |-> loc.description,
               learn |-> LearnMerchantPattern(loc.description),
               batch |-> BatchMerchantPattern(loc.description)]
    /\ UNCHANGED <<rules, transactions, uploads, categories, now, last, prev, pc, hits,
                   file, parsed, amount_string, amount_result>>

InitPattern ==
    /\ rules = <<>>
    /\ transactions = <<>>
    /\ uploads = <<>>
    /\ categories = DefaultCategories
    /\ now = 0
    /\ last = NoCall
    /\ prev = NoCall
    /\ pc = <<>>
    /\ loc \in {NoPatterns(d) : d \in PatternDescriptions}
    /\ hits = <<>>
    /\ file = NoFile
    /\ parsed = NoParse
    /\ amount_string = <<>>
    /\ amount_result = NoAmount

NextPattern == DerivePatterns

\* one description, handed to both callers of _extract_merchant_pattern
SpecPattern == InitPattern /\ [][NextPattern]_vars

(***************************************************************************)
(* The HTTP API (api/transactions.py, api/categories.py, api/upload.py):   *)
(* requests served one at a time.                                          *)
(***************************************************************************)
\* what a request answered: the HTTP status, the error code ("none" on
\* success) and the batch_categorized count of update_transaction
ApiCall(op, id, data, status, code, batch_categorized) ==
    [op |-> op, id |-> id, data |-> data, status |-> status, code |-> code,
     n |-> batch_categorized, d |-> <<>>, c |-> 0, res |-> NoMatch, rule |-> NoRule]

\* request bodies of update_transaction: the fields sent and their values
UpdateBody(fields, category_id, description) ==
    [fields |-> fields, category_id |-> category_id, description |-> description]

\* mongo.db.transactions.update_one({'_id': object_id}, {'$set': update_doc})
UpdateOne(txns, transaction_id, data) ==
    [txns EXCEPT
        ![transaction_id].category_id =
            IF "category_id" \in data.fields THEN data.category_id ELSE @,
        ![transaction_id].description =
            IF "description" \in data.fields THEN Strip(data.description) ELSE @]

\* update_transaction learning from an update whatever category it sets
LearnsFromAnyCategory(data) == "category_id" \in data.fields

\* update_transaction's test for learning and batch categorization:
\* 'category_id' in update_doc and update_doc['category_id'] != 0
LearnsFromUpdate(data) == "category_id" \in data.fields /\ data.category_id # 0

\* update_transaction: PUT /transactions/<transaction_id>; a negative id
\* stands for a string that is no ObjectId
UpdateTransaction(transaction_id, data) ==
    LET Reject(status, code) ==
            /\ last' = ApiCall("update_transaction", transaction_id, data, status, code, 0)
            /\ UNCHANGED <<rules, transactions>>
    IN  /\ now < MaxClock
        /\ now' = now + 1
        /\ prev' = last
        /\ IF transaction_id < 0 THEN Reject(400, "INVALID_ID")
           ELSE IF data.fields = {} THEN Reject(400, "INVALID_REQUEST")
           ELSE IF transaction_id \notin 1..Len(transactions) THEN Reject(404, "NOT_FOUND")
           ELSE IF /\ "category_id" \in data.fields
                   /\ ~ValidateCategoryId(data.category_id, categories)
                THEN Reject(400, "INVALID_CATEGORY_ID")
           ELSE IF data.fields \cap {"category_id", "description"} = {}
                THEN Reject(400, "NO_UPDATES")
           ELSE \E updated \in {UpdateOne(transactions, transaction_id, data)} :
                \E description \in {updated[transaction_id].description} :
                \E transaction_ids \in {BatchFind(updated, description)} :
                \E batch_count \in
                     {IF LearnsFromUpdate(data) /\ transaction_ids # {}
                      THEN ModifiedCount(updated, transaction_ids, data.category_id)
                      ELSE 0} :
                    /\ rules' = IF LearnsFromUpdate(data)
                                THEN LearnRules(rules, description, data.category_id, now + 1)
                                ELSE rules
                    /\ transactions' =
                          IF LearnsFromUpdate(data) /\ transaction_ids # {}
                          THEN BatchWrite(updated, transaction_ids, data.category_id)
                          ELSE updated
                    /\ last' = ApiCall("update_transaction", transaction_id, data,
                                       200, "none", batch_count)
        /\ UNCHANGED <<uploads, categories, pc, loc, hits, file, parsed,
                       amount_string, amount_result>>

\* Category.get_next_id: the highest id plus one, 1 for an empty collection
GetNextId(cats) ==
    IF cats = <<>> THEN 1
    ELSE (CHOOSE m \in {cats[i].id : i \in 1..Len(cats)} :
              \A i \in 1..Len(cats) : cats[i].id <= m) + 1

\* categories.find_one({'name': name}): whether a document has that name
NameExists(cats, name) == \E i \in 1..Len(cats) : cats[i].name = name

\* the index accepting every document
DuplicateKeyIgnored(cats, id) == FALSE

\* whether the unique index on 'id' rejects the insertion of a document
DuplicateKey(cats, id) == \E i \in 1..Len(cats) : cats[i].id = id

\* create_category: POST /categories with a name and a color, valid or not
CreateCategory(name, color_valid) ==
    /\ now < MaxClock
    /\ now' = now + 1
    /\ prev' = last
    /\ IF NameExists(categories, name)
       THEN /\ last' = ApiCall("create_category", 0, name, 409, "DUPLICATE_NAME", 0)
            /\ UNCHANGED categories
       ELSE IF ~color_valid
       THEN /\ last' = ApiCall("create_category", 0, name, 400, "VALIDATION_ERROR", 0)
            /\ UNCHANGED categories
       ELSE IF DuplicateKey(categories, GetNextId(categories))
       THEN /\ last' = ApiCall("create_category", 0, name, 500, "DATABASE_ERROR", 0)
            /\ UNCHANGED categories
       ELSE /\ categories' = Append(categories,
                                    [id |-> GetNextId(categories), name |-> name])
            /\ last' = ApiCall("create_category", GetNextId(categories), name,
                               201, "none", 0)
    /\ UNCHANGED <<rules, transactions, uploads, pc, loc, hits, file, parsed,
                   amount_string, amount_result>>

\* count_documents answering 0 whatever the collection holds
TransactionCountZero(txns, category_id) == 0

\* transactions.count_documents({'category_id': category_id})
TransactionCount(txns, category_id) ==
    Cardinality({i \in 1..Len(txns) : txns[i].category_id = category_id})

\* categories.delete_one({'id': category_id}): the first such document goes
DeleteOne(cats, category_id) ==
    LET first == CHOOSE i \in 1..Len(cats) :
                    /\ cats[i].id = category_id
                    /\ \A j \in 1..(i - 1) : cats[j].id # category_id
    IN  SubSeq(cats, 1, first - 1) \o SubSeq(cats, first + 1, Len(cats))

\* delete_category: DELETE /categories/<category_id>
DeleteCategory(category_id) ==
    /\ now < MaxClock
    /\ now' = now + 1
    /\ prev' = last
    /\ IF ~\E i \in 1..Len(categories) : categories[i].id = category_id
       THEN /\ last' = ApiCall("delete_category", category_id, <<>>, 404, "NOT_FOUND", 0)
            /\ UNCHANGED categories
       ELSE IF TransactionCount(transactions, category_id) > 0
       THEN /\ last' = ApiCall("delete_category", category_id, <<>>, 409,
                               "CATEGORY_IN_USE", 0)
            /\ UNCHANGED categories
       ELSE /\ categories' = DeleteOne(categories, category_id)
            /\ last' = ApiCall("delete_category", category_id, <<>>, 200, "none", 0)
    /\ UNCHANGED <<rules, transactions, uploads, pc, loc, hits, file, parsed,
                   amount_string, amount_result>>

\* descriptions sent to the API
ApiDescs == { <<"A">>, <<"B">> }

\* category ids sent to the API: the default, two defaults in use by
\* rules, the first id a created category gets, and an id never given
ApiCatIds == {0, 1, 2, 7, 9}

\* names sent to create_category: one taken by a default, one free
ApiNames == {"Gas", "Pets"}

\* bodies sent to update_transaction
UpdateBodies ==
    { UpdateBody({}, 0, <<>>), UpdateBody({"unknown"}, 0, <<>>),
      UpdateBody({"description"}, 0, <<"B">>) }
      \cup { UpdateBody({"category_id"}, c, <<>>) : c \in {0, 1, 2, 9} }
      \cup { UpdateBody({"category_id", "description"}, c, <<"B">>) : c \in {0, 2} }

\* the file uploaded through the API: a row a learned rule may match and a
\* row of another merchant
ApiFile ==
    [headers |-> <<"Date", "Description", "Amount">>,
     rows |-> << <<D1, <<"A">>, <<"5">>>>, <<D2, <<"B">>, <<"5">>>> >>]

\* after init_db, either before any rule was learned or after a
\* correction taught the engine that "A" belongs to category 1
InitApi ==
    /\ rules \in { <<>>, << NewRule(<<"A">>, 1, 0) >> }
    /\ transactions = <<>>
    /\ uploads = <<>>
    /\ categories = DefaultCategories
    /\ now = 0
    /\ last = NoCall
    /\ prev = NoCall
    /\ pc = <<>>
    /\ loc = <<>>
    /\ hits = <<>>
    /\ file = ApiFile
    /\ parsed = NoParse
    /\ amount_string = <<>>
    /\ amount_result = NoAmount

NextApi ==
    \/ \E d \in ApiDescs, c \in {0, 1, 9} : CreateTransaction(d, c)
    \/ \E id \in {-1} \cup 1..(Len(transactions) + 1), data \in UpdateBodies :
          UpdateTransaction(id, data)
    \/ UploadCsv
    \/ \E name \in ApiNames, color_valid \in BOOLEAN : CreateCategory(name, color_valid)
    \/ \E id \in ApiCatIds : DeleteCategory(id)

\* requests to the API, one at a time
SpecApi == InitApi /\ [][NextApi]_vars

(***************************************************************************)
(* Concurrent create_category requests: the three database calls of each   *)
(* request (the name lookup, get_next_id's read, insert_one) interleave    *)
(* with those of the others; db.categories has a unique index on 'id'.     *)
(***************************************************************************)
\* names sent by the concurrent requests: one taken by a default, two free
CatNames == {"Gas", "Pets", "Toys"}

NoCatLoc == [op |-> "none", name |-> "", next_id |-> 0]

\* a request enters create_category with body {"name": name, ...}
StartCreate(p, name) ==
    /\ pc[p] = "idle"
    /\ pc' = [pc EXCEPT ![p] = "cc_name"]
    /\ loc' = [loc EXCEPT ![p] = [NoCatLoc EXCEPT !.op = "create_category", !.name = name]]
    /\ UNCHANGED <<rules, transactions, uploads, categories, now, last, prev, hits,
                   file, parsed, amount_string, amount_result>>

\* categories.find_one({'name': data['name'].strip()})
CcName(p) ==
    /\ pc[p] = "cc_name"
    /\ IF NameExists(categories, loc[p].name)
       THEN Finish(p, ApiCall("create_category", 0, loc[p].name, 409, "DUPLICATE_NAME", 0))
       ELSE /\ pc' = [pc EXCEPT ![p] = "cc_next"]
            /\ UNCHANGED <<last, prev>>
    /\ UNCHANGED <<rules, transactions, uploads, categories, now, loc, hits,
                   file, parsed, amount_string, amount_result>>

\* Category.get_next_id(mongo): find_one(sort=[('id', -1)])
CcNext(p) ==
    /\ pc[p] = "cc_next"
    /\ pc' = [pc EXCEPT ![p] = "cc_insert"]
    /\ loc' = [loc EXCEPT ![p].next_id = GetNextId(categories)]
    /\ UNCHANGED <<rules, transactions, uploads, categories, now, last, prev, hits,
                   file, parsed, amount_string, amount_result>>

\* categories.insert_one(category): DuplicateKeyError is a PyMongoError
CcInsert(p) ==
    /\ pc[p] = "cc_insert"
    /\ now' = now + 1
    /\ IF DuplicateKey(categories, loc[p].next_id)
       THEN /\ Finish(p, ApiCall("create_category", loc[p].next_id, loc[p].name,
                                 500, "DATABASE_ERROR", 0))
            /\ UNCHANGED categories
       ELSE /\ categories' = Append(categories,
                                    [id |-> loc[p].next_id, name |-> loc[p].name])
            /\ Finish(p, ApiCall("create_category", loc[p].next_id, loc[p].name,
                                 201, "none", 0))
    /\ UNCHANGED <<rules, transactions, uploads, loc, hits, file, parsed,
                   amount_string, amount_result>>

InitCat ==
    /\ rules = <<>>
    /\ transactions = <<>>
    /\ uploads = <<>>
    /\ categories = DefaultCategories
    /\ now = 0
    /\ last = NoCall
    /\ prev = NoCall
    /\ pc = [p \in Procs |-> "idle"]
    /\ loc = [p \in Procs |-> NoCatLoc]
    /\ hits = <<>>
    /\ file = NoFile
    /\ parsed = NoParse
    /\ amount_string = <<>>
    /\ amount_result = NoAmount

NextCat ==
    \E p \in Procs :
        \/ \E name \in CatNames : StartCreate(p, name)
        \/ CcName(p)
        \/ CcNext(p)
        \/ CcInsert(p)

\* NumProcs create_category requests, each made once, their database calls
\* interleaved
SpecCat == InitCat /\ [][NextCat]_vars

(***************************************************************************)
(* A description classified, then other descriptions classified, then the  *)
(* first one classified again, with no learn call in between; the caller   *)
(* keeps the first answer.                                                 *)
(***************************************************************************)
\* the most classify calls made on other descriptions in between
MaxOtherCalls == 2

NoRepeat == [stage |-> "start", d |-> <<>>, first |-> NoMatch, others |-> 0]

\* the first categorize(d)
ClassifyFirst(d) ==
    /\ loc.stage = "start"
    /\ now' = now + 1
    /\ rules' = CategorizeRules(rules, d, now + 1)
    /\ prev' = last
    /\ last' = Call("categorize", d, 0, CategorizeHit(rules, d).res, 0, NoRule)
    /\ loc' = [stage |-> "between", d |-> d,
               first |-> CategorizeHit(rules, d).res, others |-> 0]
    /\ UNCHANGED <<transactions, uploads, categories, pc, hits, file, parsed,
                   amount_string, amount_result>>

\* categorize(d) on a description other than the first
ClassifyOther(d) ==
    /\ loc.stage = "between"
    /\ d # loc.d
    /\ loc.others < MaxOtherCalls
    /\ now' = now + 1
    /\ rules' = CategorizeRules(rules, d, now + 1)
    /\ prev' = last
    /\ last' = Call("categorize", d, 0, CategorizeHit(rules, d).res, 0, NoRule)
    /\ loc' = [loc EXCEPT !.others = @ + 1]
    /\ UNCHANGED <<transactions, uploads, categories, pc, hits, file, parsed,
                   amount_string, amount_result>>

\* categorize on the first description again
ClassifyAgain ==
    /\ loc.stage = "between"
    /\ now' = now + 1
    /\ rules' = CategorizeRules(rules, loc.d, now + 1)
    /\ prev' = last
    /\ last' = Call("categorize", loc.d, 0, CategorizeHit(rules, loc.d).res, 0, NoRule)
    /\ loc' = [loc EXCEPT !.stage = "done"]
    /\ UNCHANGED <<transactions, uploads, categories, pc, hits, file, parsed,
                   amount_string, amount_result>>

InitRepeat ==
    /\ rules \in SeedStores
    /\ transactions = <<>>
    /\ uploads = <<>>
    /\ categories = DefaultCategories
    /\ now = 0
    /\ last = NoCall
    /\ prev = NoCall
    /\ pc = <<>>
    /\ loc = NoRepeat
    /\ hits = <<>>
    /\ file = NoFile
    /\ parsed = NoParse
    /\ amount_string = <<>>
    /\ amount_result = NoAmount

NextRepeat ==
    \/ \E d \in Descs : ClassifyFirst(d)
    \/ \E d \in Descs : ClassifyOther(d)
    \/ ClassifyAgain

\* classify calls only, from any seeded rule store
SpecRepeat == InitRepeat /\ [][NextRepeat]_vars

(***************************************************************************)
(* Claims.                                                                 *)
(***************************************************************************)
HasExact(rs, d) ==
    \E i \in 1..Len(rs) : rs[i].match_type = "exact" /\ rs[i].pattern = d

HasContains(rs, d) ==
    \E i \in 1..Len(rs) :
        rs[i].match_type = "contains" /\ IsSubstring(Upper(rs[i].pattern), d)

HasFuzzy(rs, d) ==
    \E i \in 1..Len(rs) :
        rs[i].match_type = "fuzzy" /\ FuzzRatio(Upper(rs[i].pattern), d) >= FuzzyThreshold

\* C1: a classify call returns the result of the first tier that hits, in
\* the order exact, contains, fuzzy: 'exact' with confidence 1.0 exactly
\* when an exact rule equals the cleaned description, 'contains' exactly
\* when no exact rule hits and a contains rule does, 'fuzzy' exactly when
\* only a fuzzy rule reaches the threshold, and {0, 0.0, 'none'} exactly
\* when no tier hits.
C1_Cascade ==
    [][ (last'.op = "categorize" /\ now' = now + 1) =>
          LET d == Clean(last'.d)
              ex == HasExact(rules, d)
              co == HasContains(rules, d)
              fz == HasFuzzy(rules, d)
              r == last'.res
          IN  /\ (r.match_type = "exact") <=> ex
              /\ ex => r.confidence = 100
              /\ (r.match_type = "contains") <=> (~ex /\ co)
              /\ (r.match_type = "fuzzy") <=> (~ex /\ ~co /\ fz)
              /\ (r = NoMatch) <=> (~ex /\ ~co /\ ~fz)
              /\ (r.match_type = "none") <=> (r = NoMatch) ]_vars

\* an exact hit was returned although a contains rule and a fuzzy rule
\* match the description too
C1_Witness ==
    /\ last.op = "categorize"
    /\ last.res.match_type = "exact"
    /\ HasContains(rules, Clean(last.d))
    /\ \E i \in 1..Len(rules) : rules[i].match_type = "fuzzy"

\* C2: learn(d, c) followed immediately by classify(d) returns match_type
\* 'contains', confidence 0.9 and category_id c.
C2_LearnThenClassify ==
    (last.op = "categorize" /\ prev.op = "learn" /\ last.d = prev.d) =>
        last.res = [category_id |-> prev.c, confidence |-> 90, match_type |-> "contains"]

\* C3: the bulk write of propagateSimilar never changes the category_id of a
\* transaction whose category_id is not 0 at the moment of the write.
C3_PropagationNeverOverwrites ==
    [][ \A p \in Procs :
          (pc[p] = "batch_write" /\ pc'[p] # "batch_write") =>
              \A i \in 1..Len(transactions) :
                  transactions[i].category_id # 0 =>
                      transactions'[i].category_id = transactions[i].category_id ]_vars

\* C4: at most one rule with match_type 'contains' exists for each pattern.
C4_OneContainsRulePerPattern ==
    \A i, j \in 1..Len(rules) :
        (/\ i # j
         /\ rules[i].match_type = "contains"
         /\ rules[j].match_type = "contains") => rules[i].pattern # rules[j].pattern

\* a pattern was learned again with another category, right after another
\* description was learned, so that the store holds two rules
C4_Witness ==
    /\ last.op = "learn"
    /\ prev.op = "learn"
    /\ last.d # prev.d
    /\ last.c # prev.c
    /\ last.rule.created_date < now
    /\ Len(rules) >= 2

ContainsRulesFor(pattern) ==
    {i \in 1..Len(rules) :
        rules[i].match_type = "contains" /\ rules[i].pattern = pattern}

\* C5: when the learn calls of concurrent requests for the same brand-new
\* merchant pattern have all returned, the rule store holds exactly one
\* 'contains' rule for that pattern.
C5_ConcurrentLearnOneRule ==
    AllDone =>
        \A p \in Procs :
            (loc[p].op = "update" /\ pc[p] = "done" /\ loc[p].c # 0) =>
                Cardinality(ContainsRulesFor(ExtractMerchantPattern(Clean(loc[p].d)))) = 1

\* C6: usage-counter updates are atomic increments: when the requests have
\* all returned, the use_count of every rule is its use_count at creation
\* (1) plus the number of classify hits and re-categorizations made
\* against it.
C6_NoLostIncrement ==
    AllDone =>
        \A i \in 1..Len(rules) : rules[i].use_count = 1 + hits[i].n

\* two requests updated the usage of one rule, the second having read the
\* rule before the first wrote
C6_Witness ==
    /\ AllDone
    /\ \E i \in 1..Len(rules) : hits[i].n >= 2 /\ hits[i].raced

\* C7: two consecutive classify calls on the same description return the
\* same category_id, match_type and confidence.
C7_ClassifyIdempotent ==
    (last.op = "categorize" /\ prev.op = "categorize" /\ last.d = prev.d) =>
        last.res = prev.res

\* classified twice, hitting a contains rule while a second contains rule
\* with another category matches as well
C7_Witness ==
    /\ last.op = "categorize"
    /\ prev.op = "categorize"
    /\ last.d = prev.d
    /\ last.res.match_type = "contains"
    /\ \E i, j \in 1..Len(rules) :
          /\ rules[i].match_type = "contains"
          /\ rules[j].match_type = "contains"
          /\ rules[i].category_id # rules[j].category_id
          /\ IsSubstring(Upper(rules[i].pattern), Clean(last.d))
          /\ IsSubstring(Upper(rules[j].pattern), Clean(last.d))

\* whether an uncategorized transaction still matches the merchant pattern
\* of description d
UncategorizedMatchRemains(txns, d) ==
    \E i \in 1..Len(txns) :
        /\ txns[i].category_id = 0
        /\ IsSubstring(ExtractMerchantPattern(Clean(d)), Upper(txns[i].description))

SecondBatchStep ==
    /\ last.op = "batch"
    /\ last'.op = "batch"
    /\ now' = now + 1
    /\ last'.d = last.d
    /\ last'.c = last.c

\* C8 as stated: for every description and category id, a second
\* propagateSimilar in a row returns 0 and changes no transaction, and after
\* the first call no uncategorized transaction matching the pattern remains.
C8_Original ==
    [][ SecondBatchStep =>
          /\ last'.n = 0
          /\ transactions' = transactions
          /\ ~UncategorizedMatchRemains(transactions, last.d) ]_vars

\* C8 as amended: a second propagateSimilar in a row returns 0 and changes
\* no transaction, for every category id; when the category id is not 0,
\* no uncategorized transaction matching the pattern remains after the
\* first call.
C8_Amended ==
    [][ SecondBatchStep =>
          /\ last'.n = 0
          /\ transactions' = transactions
          /\ (last.c # 0 => ~UncategorizedMatchRemains(transactions, last.d)) ]_vars

\* propagated twice in a row, the first call having changed a transaction
C8_Witness ==
    /\ last.op = "batch"
    /\ prev.op = "batch"
    /\ last.d = prev.d
    /\ last.c = prev.c
    /\ prev.n > 0
    /\ last.n = 0

Names(list) == {list[i] : i \in 1..Len(list)}

\* a header row is present and holds a date, a description and an amount name
HeadersComplete(headers) ==
    /\ headers # <<>>
    /\ \E i \in 1..Len(headers) : HeaderLower(headers[i]) \in Names(DATE_COLUMNS)
    /\ \E i \in 1..Len(headers) : HeaderLower(headers[i]) \in Names(DESCRIPTION_COLUMNS)
    /\ \E i \in 1..Len(headers) : HeaderLower(headers[i]) \in Names(AMOUNT_COLUMNS)

\* the cell of row under the header at position i is missing or empty
EmptyAt(row, i) == i > Len(row) \/ row[i] = <<>>

\* the date, description and amount cells of row are all empty
RowIsEmpty(headers, row) ==
    \A i \in 1..Len(headers) :
        HeaderLower(headers[i]) \in
            Names(DATE_COLUMNS) \cup Names(DESCRIPTION_COLUMNS) \cup Names(AMOUNT_COLUMNS)
        => EmptyAt(row, i)

EmptyRows(f) ==
    {k \in 1..Len(DataRows(f)) : RowIsEmpty(f.headers, DataRows(f)[k])}

\* C9: once the header row is accepted, parse_csv returns whatever the data
\* rows hold, rows with fewer cells than headers included: every data row
\* yields exactly one of a record, a row-error entry, or nothing when its
\* date, description and amount cells are all empty, and row_count is the
\* number of records.
C9_RowFailuresNeverAbort ==
    (parsed.op = "parse_csv" /\ HeadersComplete(file.headers)) =>
        /\ parsed.status = "ok"
        /\ parsed.row_count = Len(parsed.transactions)
        /\ Len(parsed.transactions) + Len(parsed.errors) + Cardinality(EmptyRows(file))
             = Len(DataRows(file))

\* C10: when the header row is absent or lacks a date, a description or an
\* amount name, parse_csv raises ValueError with no record and no row-error
\* list, and upload_csv rejects the file having inserted no transaction and
\* no upload record.
C10_MissingRoleIsFatal ==
    ~HeadersComplete(file.headers) =>
        /\ transactions = <<>>
        /\ uploads = <<>>
        /\ parsed.transactions = <<>>
        /\ parsed.errors = <<>>
        /\ parsed.op = "parse_csv" => parsed.status = "ValueError"
        /\ parsed.op = "upload_csv" =>
               parsed.status = "400" /\ parsed.code \in {"INVALID_CSV", "PARSE_ERROR"}

\* an upload was rejected for a file that names a date and a description
\* but no amount, and holds a row that would otherwise parse
C10_Witness ==
    /\ parsed.op = "upload_csv"
    /\ parsed.code = "INVALID_CSV"
    /\ FindColumn(file.headers, DATE_COLUMNS) # NoColumn
    /\ FindColumn(file.headers, DESCRIPTION_COLUMNS) # NoColumn
    /\ ~HeadersComplete(file.headers)
    /\ \E k \in 1..Len(file.rows) : Len(file.rows[k]) >= 2 /\ file.rows[k][1] = D1

\* the cell is wrapped in parentheses
Parenthesized(text) ==
    /\ Strip(text) # <<>>
    /\ Head(Strip(text)) = "("
    /\ Strip(text)[Len(Strip(text))] = ")"

\* the cell, parentheses taken off, currency symbols, commas and spaces aside,
\* starts with a minus sign
LeadingMinus(text) ==
    LET t == Strip(text)
        body == Remove(IF Parenthesized(text) THEN SubSeq(t, 2, Len(t) - 1) ELSE t,
                       {"$", ",", " "})
    IN  body # <<>> /\ Head(body) = "-"

\* the cell is blank or one of the null words
NullCell(text) == Strip(text) = <<>> \/ Lower(Strip(text)) \in NullTexts

\* C11: of the cells parse_amount accepts, a blank or null word yields 0, a
\* parenthesized cell never yields a positive amount, signed inside or not,
\* a cell with a leading minus and no parentheses yields a negative amount
\* (zero only for a zero magnitude), and a cell with neither yields a
\* non-negative amount.
C11_AmountSigns ==
    (amount_result.called /\ amount_result.ok) =>
        LET x == amount_result.amount
        IN  /\ NullCell(amount_string) => x = Finite(0)
            /\ (~NullCell(amount_string) /\ Parenthesized(amount_string)) =>
                   ~(x.kind = "finite" /\ x.hundredths > 0)
            /\ (~NullCell(amount_string) /\ ~Parenthesized(amount_string)
                    /\ LeadingMinus(amount_string)) =>
                   (x.kind = "finite" /\ x.hundredths <= 0)
            /\ (~NullCell(amount_string) /\ ~Parenthesized(amount_string)
                    /\ ~LeadingMinus(amount_string)) =>
                   (x.kind = "finite" /\ x.hundredths >= 0)

\* the contains rules of rs whose upper-cased pattern is a substring of d
ContainsMatches(rs, d) ==
    {i \in 1..Len(rs) :
        rs[i].match_type = "contains" /\ IsSubstring(Upper(rs[i].pattern), d)}

\* C12: when the contains tier is reached, the matching contains rule with
\* the highest use_count (the earliest enumerated among equals) wins:
\* classify returns its category_id with confidence 0.9.
C12_ContainsOrder ==
    [][ (last'.op = "categorize" /\ now' = now + 1
           /\ ~HasExact(rules, Clean(last'.d))
           /\ ContainsMatches(rules, Clean(last'.d)) # {}) =>
          \E i \in ContainsMatches(rules, Clean(last'.d)) :
              /\ \A j \in ContainsMatches(rules, Clean(last'.d)) :
                    \/ rules[j].use_count < rules[i].use_count
                    \/ rules[j].use_count = rules[i].use_count /\ i <= j
              /\ last'.res = [category_id |-> rules[i].category_id,
                              confidence |-> 90, match_type |-> "contains"] ]_vars

\* the first call hit a contains rule enumerated after another matching
\* contains rule of lower use_count and of another category
C12_Witness ==
    /\ now = 1
    /\ last.op = "categorize"
    /\ last.res.match_type = "contains"
    /\ \E i, j \in ContainsMatches(rules, Clean(last.d)) :
          /\ i < j
          /\ rules[j].last_used = 1
          /\ rules[j].use_count - 1 > rules[i].use_count
          /\ rules[i].category_id # rules[j].category_id
          /\ last.res.category_id = rules[j].category_id

\* the fuzzy rules of rs
FuzzyRules(rs) == {i \in 1..Len(rs) : rs[i].match_type = "fuzzy"}

\* C13: when the fuzzy tier is reached, classify returns a fuzzy result
\* exactly when the best score is at least 80; the result carries the score
\* as confidence (0.8 to 1.0) and the category of the first enumerated rule
\* that reaches the best score; a best score below 80 yields no match.
C13_FuzzyThreshold ==
    [][ (last'.op = "categorize" /\ now' = now + 1) =>
          \A d \in {Clean(last'.d)} :
            (~HasExact(rules, d) /\ ~HasContains(rules, d)) =>
              \A score \in {[i \in FuzzyRules(rules) |->
                                FuzzRatio(Upper(rules[i].pattern), d)]} :
                LET reached == {i \in FuzzyRules(rules) : score[i] >= 80}
                    first == CHOOSE i \in reached :
                                \A j \in reached :
                                    \/ score[j] < score[i]
                                    \/ score[j] = score[i] /\ i <= j
                IN  IF reached # {}
                    THEN /\ last'.res = [category_id |-> rules[first].category_id,
                                         confidence |-> score[first],
                                         match_type |-> "fuzzy"]
                         /\ last'.res.confidence \in 80..100
                    ELSE last'.res = NoMatch ]_vars

\* a fuzzy result was returned while two rules of different categories tie
\* for the best score, and the store holds a rule scoring below 80 as well
C13_Witness ==
    /\ now = 1
    /\ last.op = "categorize"
    /\ last.res.match_type = "fuzzy"
    /\ \E i, j \in FuzzyRules(rules) :
          /\ i < j
          /\ rules[i].category_id # rules[j].category_id
          /\ FuzzRatio(Upper(rules[i].pattern), Clean(last.d)) = last.res.confidence
          /\ FuzzRatio(Upper(rules[j].pattern), Clean(last.d)) = last.res.confidence
    /\ \E k \in FuzzyRules(rules) :
          FuzzRatio(Upper(rules[k].pattern), Clean(last.d)) \in 1..79

\* C14: a classify call that hits a rule adds exactly 1 to that rule's
\* use_count and sets its last_used to the time of the call, and changes no
\* other rule, no other field of the rule and no transaction; a call that
\* returns 'none' leaves the rule store unchanged.
C14_ClassifyFrame ==
    [][ (last'.op = "categorize" /\ now' = now + 1) =>
          /\ transactions' = transactions
          /\ IF last'.res.match_type = "none" THEN rules' = rules
             ELSE \E i \in 1..Len(rules) :
                     /\ rules[i].match_type = last'.res.match_type
                     /\ rules[i].category_id = last'.res.category_id
                     /\ rules' = [rules EXCEPT ![i].use_count = rules[i].use_count + 1,
                                               ![i].last_used = now'] ]_vars

\* the first call hit one of two rules that carry the same pattern, and the
\* other one kept its use_count and its last_used
C14_Witness ==
    /\ now = 1
    /\ last.op = "categorize"
    /\ last.res.match_type # "none"
    /\ \E i, j \in 1..Len(rules) :
          /\ i # j
          /\ rules[i].pattern = rules[j].pattern
          /\ rules[i].last_used = 1
          /\ rules[i].use_count = 2
          /\ rules[j].last_used = 0
          /\ rules[j].use_count = 1

\* C15: after a learn(d, c) call the store holds a contains rule for the
\* merchant pattern of d, and every contains rule for that pattern carries
\* category c, whatever category the pattern had before.
C15_LastLearnWins ==
    last.op = "learn" =>
        /\ ContainsRulesFor(ExtractMerchantPattern(Clean(last.d))) # {}
        /\ \A i \in ContainsRulesFor(ExtractMerchantPattern(Clean(last.d))) :
              rules[i].category_id = last.c

\* the same pattern was learned twice in a row with different categories
C15_Witness ==
    /\ last.op = "learn"
    /\ prev.op = "learn"
    /\ ExtractMerchantPattern(Clean(last.d)) = ExtractMerchantPattern(Clean(prev.d))
    /\ last.c # prev.c

\* C16: learn(d, c) adds exactly one contains rule with use_count 1 and
\* category c when the pattern has no contains rule; sets the category and
\* adds exactly 1 to use_count when the pattern's rule has another category;
\* leaves the rule store unchanged when the rule already has category c.
\* No other rule is touched.
C16_LearnFrame ==
    [][ (last'.op = "learn" /\ now' = now + 1) =>
          LET pattern == ExtractMerchantPattern(Clean(last'.d))
              c == last'.c
              ex == ContainsRulesFor(pattern)
              i == CHOOSE k \in ex : \A j \in ex : k <= j
          IN  IF ex = {}
              THEN rules' = Append(rules,
                       [pattern |-> pattern, category_id |-> c,
                        match_type |-> "contains", created_date |-> now',
                        last_used |-> now', use_count |-> 1])
              ELSE IF rules[i].category_id # c
              THEN rules' = [rules EXCEPT ![i].category_id = c,
                                          ![i].use_count = rules[i].use_count + 1,
                                          ![i].last_used = now']
              ELSE rules' = rules ]_vars

\* a pattern was learned with the category its rule already had: the rule
\* kept the use_count and the last_used of the learn before
C16_Witness ==
    /\ last.op = "learn"
    /\ prev.op = "learn"
    /\ ExtractMerchantPattern(Clean(last.d)) = ExtractMerchantPattern(Clean(prev.d))
    /\ last.c = prev.c
    /\ \E i \in ContainsRulesFor(ExtractMerchantPattern(Clean(last.d))) :
          rules[i].last_used = now - 1

\* C17: the rule learn(d, c) returns carries category c and the use_count
\* of the stored rule for the pattern, also when the call overwrote the
\* category of an existing rule.
C17_LearnReturnsStoredRule ==
    last.op = "learn" =>
        /\ last.rule.category_id = last.c
        /\ \A i \in ContainsRulesFor(ExtractMerchantPattern(Clean(last.d))) :
              rules[i].use_count = last.rule.use_count

\* the positions of the headers that name an amount
AmountHeaders(headers) ==
    {i \in 1..Len(headers) : HeaderLower(headers[i]) \in Names(AMOUNT_COLUMNS)}

\* the trimmed cell of the first of cols, from position k on, that is not
\* empty in row; the empty text when all are empty or missing
RECURSIVE FirstNonEmpty(_, _, _, _)
FirstNonEmpty(headers, row, cols, k) ==
    IF k > Len(cols) THEN <<>>
    ELSE IF ~RowGet(headers, row, cols[k]).none
            /\ Strip(RowGet(headers, row, cols[k]).text) # <<>>
         THEN Strip(RowGet(headers, row, cols[k]).text)
         ELSE FirstNonEmpty(headers, row, cols, k + 1)

\* exactly one of mapping['amount'] and mapping['amount_columns'] is set
OneAmountRole(m) == (m.amount # NoColumn) <=> (m.amount_columns = <<>>)

\* a single amount header gives 'amount', two or more give 'amount_columns'
AmountRoleByCount(headers, m) ==
    /\ Cardinality(AmountHeaders(headers)) = 1 =>
           (m.amount # NoColumn /\ m.amount_columns = <<>>)
    /\ Cardinality(AmountHeaders(headers)) >= 2 =>
           (m.amount = NoColumn /\ Len(m.amount_columns) > 1)

\* every row of the file gave a record, and each record's amount is that of
\* the first non-empty amount column of its row, 0 when all are empty
FirstNonEmptyWins(f, m, records) ==
    (m.amount_columns # <<>> /\ Len(records) = Len(DataRows(f))) =>
        \A k \in 1..Len(records) :
            records[k].amount =
                ParseAmount(Cell(FirstNonEmpty(f.headers, DataRows(f)[k],
                                               m.amount_columns, 1))).amount

\* C18: for every header row detect_columns accepts, exactly one of
\* mapping['amount'] and mapping['amount_columns'] is set: 'amount' for a
\* single amount header, 'amount_columns' (of length above 1) for two or
\* more; and with amount_columns each row's amount is parsed from the first
\* listed column whose trimmed cell is not empty, or is 0 when all are empty.
C18_AmountColumns ==
    (parsed.op = "parse_csv" /\ parsed.status = "ok") =>
        /\ OneAmountRole(DetectColumns(file.headers))
        /\ AmountRoleByCount(file.headers, DetectColumns(file.headers))
        /\ FirstNonEmptyWins(file, DetectColumns(file.headers), parsed.transactions)

\* category_id 0 goes with match_type 'none' and with it only, and the
\* confidence lies between 0.0 and 1.0
UncategorizedIffNone(res) ==
    /\ (res.category_id = 0) <=> (res.match_type = "none")
    /\ res.confidence \in 0..100

\* C19 as stated: over every rule store reachable by learn calls, a classify
\* result has category_id 0 exactly when its match_type is 'none', and its
\* confidence is within [0.0, 1.0].
C19_Original ==
    last.op = "categorize" => UncategorizedIffNone(last.res)

\* C19, for the stores that learn calls with a non-zero category id build
\* (no rule carries category 0): a classify result has category_id 0 exactly
\* when its match_type is 'none', and its confidence is within [0.0, 1.0].
C19_Amended ==
    (last.op = "categorize" /\ \A i \in 1..Len(rules) : rules[i].category_id # 0) =>
        UncategorizedIffNone(last.res)

\* a learned rule was hit, in a store where no rule carries category 0
C19_Witness ==
    /\ last.op = "categorize"
    /\ last.res.match_type = "contains"
    /\ prev.op = "learn"
    /\ prev.c # 0
    /\ \A i \in 1..Len(rules) : rules[i].category_id # 0

\* the transactions with category_id 0 whose description contains the
\* merchant pattern of d, letter case aside
UncategorizedMatches(txns, d) ==
    {i \in 1..Len(txns) :
        /\ txns[i].category_id = 0
        /\ IsSubstring(Upper(ExtractMerchantPattern(Clean(d))), Upper(txns[i].description))}

\* C20: propagateSimilar(d, c) sets category_id c, auto_categorized true and
\* confidence 0.9 on exactly the uncategorized transactions whose
\* description contains the merchant pattern, returns the number of
\* transactions it modified (0 when there is none to set), and leaves every
\* other transaction, every other field and the rule store unchanged.
C20_PropagateFrame ==
    [][ (last'.op = "batch" /\ now' = now + 1) =>
          LET m == UncategorizedMatches(transactions, last'.d)
          IN  /\ rules' = rules
              /\ Len(transactions') = Len(transactions)
              /\ \A i \in 1..Len(transactions) :
                    IF i \in m
                    THEN transactions'[i] =
                             [date |-> transactions[i].date,
                              description |-> transactions[i].description,
                              amount |-> transactions[i].amount,
                              category_id |-> last'.c,
                              auto_categorized |-> TRUE,
                              confidence |-> 90,
                              notes |-> transactions[i].notes]
                    ELSE transactions'[i] = transactions[i]
              /\ last'.n = Cardinality({i \in 1..Len(transactions) :
                                           transactions'[i] # transactions[i]})
              /\ m = {} => (last'.n = 0 /\ transactions' = transactions) ]_vars

\* a propagation set the category of one transaction and left alone another
\* whose description matches too but which was categorized already
C20_Witness ==
    /\ last.op = "batch"
    /\ last.n = 1
    /\ last.c # 0
    /\ \E i, j \in 1..Len(transactions) :
          /\ transactions[i].description = transactions[j].description
          /\ transactions[i].auto_categorized
          /\ transactions[i].category_id = last.c
          /\ ~transactions[j].auto_categorized
          /\ transactions[j].category_id \notin {0, last.c}

\* a token made of # and one or more digits
IsStoreNumber(w) ==
    Len(w) >= 2 /\ w[1] = "#" /\ \A i \in 2..Len(w) : IsDigit(w[i])

\* the whitespace-separated tokens left of d once it is trimmed and
\* upper-cased and its store numbers, dates and trailing number are removed
CleanedTokens(d) ==
    Split(RemoveTrailingNumber(RemoveDates(RemoveStoreNumbers(Clean(d)))))

\* s neither starts nor ends with whitespace, nor holds two in a row
NoStrayWhitespace(s) ==
    /\ s # <<>> => ~IsSpace(s[1]) /\ ~IsSpace(s[Len(s)])
    /\ \A i \in 1..(Len(s) - 1) : ~(IsSpace(s[i]) /\ IsSpace(s[i + 1]))

\* C21: the merchant pattern derived from any description has at most
\* four whitespace-separated tokens, which are the first tokens left after
\* cleaning; none of them is a store number #<digits>; the pattern has no
\* leading, trailing or repeated whitespace; and learn and propagateSimilar
\* derive the same pattern from the same description.
C21_MerchantPattern ==
    loc.called =>
        /\ Len(Split(loc.learn)) <= 4
        /\ Split(loc.learn) =
               SubSeq(CleanedTokens(loc.description), 1, Min(4, Len(CleanedTokens(loc.description))))
        /\ \A i \in 1..Len(Split(loc.learn)) : ~IsStoreNumber(Split(loc.learn)[i])
        /\ NoStrayWhitespace(loc.learn)
        /\ loc.learn = loc.batch

\* a pattern of four tokens was derived from a description that holds more
\* than four words after cleaning, a store number and surrounding blanks
C21_Witness ==
    /\ loc.called
    /\ Len(Split(loc.learn)) = 4
    /\ Len(CleanedTokens(loc.description)) > 4
    /\ \E i \in 1..Len(Split(loc.description)) : IsStoreNumber(Split(loc.description)[i])
    /\ IsSpace(loc.description[1])

\* whether some rule of rs hits the description d in one of the three tiers
SomeTierHits(rs, d) ==
    HasExact(rs, Clean(d)) \/ HasContains(rs, Clean(d)) \/ HasFuzzy(rs, Clean(d))

\* C22: a successful upload_csv inserts as many transactions as it reports
\* in total_rows, which is the number of records the parser produced; it
\* adds exactly one upload record, of status 'processed' and that row_count;
\* categorized + uncategorized = total_rows; and a transaction is counted
\* categorized, and stored with auto_categorized true, exactly when its
\* classification is not 'none'.
C22_UploadCounts ==
    [][ (parsed'.op = "upload_csv" /\ parsed'.status = "201" /\ now' = now + 1) =>
          LET n == Len(transactions)
              inserted == {i \in 1..Len(transactions') : i > n}
              auto == {i \in inserted : transactions'[i].auto_categorized}
          IN  /\ SubSeq(transactions', 1, n) = transactions
              /\ Cardinality(inserted) = parsed'.row_count
              /\ parsed'.row_count = Len(ParseCsvResult(file).transactions)
              /\ Len(uploads') = Len(uploads) + 1
              /\ SubSeq(uploads', 1, Len(uploads)) = uploads
              /\ uploads'[Len(uploads')].status = "processed"
              /\ uploads'[Len(uploads')].row_count = parsed'.row_count
              /\ parsed'.categorized + parsed'.uncategorized = parsed'.row_count
              /\ parsed'.categorized = Cardinality(auto)
              /\ \A i \in inserted :
                    /\ transactions'[i].description
                          = ParseCsvResult(file).transactions[i - n].description
                    /\ transactions'[i].auto_categorized
                          <=> SomeTierHits(rules, transactions'[i].description) ]_vars

\* an upload stored one transaction that a rule matched and one that no
\* rule matched
C22_Witness ==
    /\ parsed.op = "upload_csv"
    /\ parsed.status = "201"
    /\ parsed.categorized = 1
    /\ parsed.uncategorized = 1
    /\ Len(uploads) = 1
    /\ Len(transactions) = 2
    /\ \E i, j \in 1..2 : transactions[i].auto_categorized /\ ~transactions[j].auto_categorized

\* the step serves a request op of the API other than an upload (every
\* upload of SpecApi adds an upload record)
Served(op) == now' = now + 1 /\ uploads' = uploads /\ last'.op = op

\* the ids of the categories of cats
CategoryIds(cats) == {cats[i].id : i \in 1..Len(cats)}

\* whether some transaction of txns refers to the category id
Referenced(txns, id) == \E i \in 1..Len(txns) : txns[i].category_id = id

\* C23: delete_category on a category that a transaction refers to fails
\* with CATEGORY_IN_USE (409) and changes neither the categories nor the
\* transactions; a category is removed only when no transaction refers to
\* it at the time of the check; deleting a missing id returns NOT_FOUND
\* (404) with no change.
C23_DeleteCategory ==
    [][ Served("delete_category") =>
          /\ transactions' = transactions
          /\ (last'.id \in CategoryIds(categories) /\ Referenced(transactions, last'.id))
                => /\ last'.status = 409
                   /\ last'.code = "CATEGORY_IN_USE"
                   /\ categories' = categories
          /\ last'.id \notin CategoryIds(categories)
                => /\ last'.status = 404
                   /\ last'.code = "NOT_FOUND"
                   /\ categories' = categories
          /\ categories' # categories
                => /\ ~Referenced(transactions, last'.id)
                   /\ last'.status = 200
                   /\ CategoryIds(categories') = CategoryIds(categories) \ {last'.id}
                   /\ Len(categories') = Len(categories) - 1 ]_vars

\* a category was deleted, and then the deletion of another category, still
\* in use by a transaction, was refused
C23_Witness ==
    /\ last.op = "delete_category"
    /\ last.code = "CATEGORY_IN_USE"
    /\ Referenced(transactions, last.id)
    /\ last.id \in CategoryIds(categories)
    /\ prev.op = "delete_category"
    /\ prev.status = 200
    /\ prev.id \notin CategoryIds(categories)

\* the highest id of the categories of cats
HighestId(cats) ==
    CHOOSE m \in CategoryIds(cats) : \A id \in CategoryIds(cats) : id <= m

\* C24: category ids are auto-incremented and unique: a created category
\* gets the highest id existing at its creation plus one, so consecutive
\* creations after the seven defaults get 7, 8, ...; and in every state,
\* also with create_category requests running concurrently, no two
\* categories share an id.
C24_CategoryIds ==
    [][ /\ \A i, j \in 1..Len(categories') :
              categories'[i].id = categories'[j].id => i = j
        /\ categories' # categories =>
              /\ Len(categories') = Len(categories) + 1
              /\ SubSeq(categories', 1, Len(categories)) = categories
              /\ categories'[Len(categories')].id = HighestId(categories) + 1
              /\ categories'[Len(categories')].id = Len(categories)
              /\ last'.status = 201
              /\ last'.id = categories'[Len(categories')].id ]_vars

\* two requests read the same next id; one created its category with it
\* and the other was refused by the index
C24_Witness ==
    /\ \A p \in Procs : pc[p] = "done"
    /\ \E p, q \in Procs :
          /\ p # q
          /\ loc[p].next_id = 7
          /\ loc[q].next_id = 7
          /\ loc[p].name # loc[q].name
    /\ last.code = "DATABASE_ERROR"
    /\ prev.status = 201
    /\ Len(categories) = 8

\* whether update_transaction refuses the request (id, data) in this state
UpdateRefused(id, data) ==
    \/ id \notin 1..Len(transactions)
    \/ data.fields \cap {"category_id", "description"} = {}
    \/ "category_id" \in data.fields /\ data.category_id \notin CategoryIds(categories)

\* C25: update_transaction updates the transaction, then learns from its
\* description as updated, then propagates over the store as updated, and
\* does the last two exactly when the request sets category_id to a
\* non-zero value.  An update that leaves category_id out, sets it to 0 or
\* is refused creates or changes no rule and changes no other transaction;
\* the corrected transaction keeps the category given by the user; and
\* batch_categorized is the number of transactions propagation modified.
C25_UpdateThenLearnThenPropagate ==
    [][ Served("update_transaction") =>
          LET id == last'.id
              data == last'.data
              sets == "category_id" \in data.fields /\ data.category_id # 0
              others == (1..Len(transactions)) \ {id}
          IN  /\ Len(transactions') = Len(transactions)
              /\ (last'.status # 200) <=> UpdateRefused(id, data)
              /\ last'.status # 200 =>
                    rules' = rules /\ transactions' = transactions /\ last'.n = 0
              /\ (last'.status = 200 /\ ~sets) =>
                    /\ rules' = rules
                    /\ \A j \in others : transactions'[j] = transactions[j]
                    /\ last'.n = 0
              /\ last'.status = 200 =>
                    /\ "category_id" \in data.fields =>
                          transactions'[id].category_id = data.category_id
                    /\ "description" \in data.fields =>
                          transactions'[id].description = Strip(data.description)
                    /\ transactions'[id].auto_categorized = transactions[id].auto_categorized
                    /\ transactions'[id].confidence = transactions[id].confidence
              /\ (last'.status = 200 /\ sets) =>
                    LET pattern == ExtractMerchantPattern(Clean(transactions'[id].description))
                        matched == {j \in others :
                                       /\ transactions[j].category_id = 0
                                       /\ IsSubstring(Upper(pattern),
                                                      Upper(transactions[j].description))}
                    IN  /\ \E r \in 1..Len(rules') :
                              /\ rules'[r].match_type = "contains"
                              /\ rules'[r].pattern = pattern
                              /\ rules'[r].category_id = data.category_id
                        /\ \A r \in 1..Len(rules) :
                              rules'[r] # rules[r] => rules[r].pattern = pattern
                        /\ \A j \in matched :
                              /\ transactions'[j].category_id = data.category_id
                              /\ transactions'[j].auto_categorized
                              /\ transactions'[j].confidence = 90
                        /\ \A j \in others \ matched : transactions'[j] = transactions[j]
                        /\ last'.n = Cardinality({j \in others :
                                                    transactions'[j] # transactions[j]}) ]_vars

\* an update gave a transaction a new description and a non-zero category:
\* the rule was learned from the new description, and propagation labelled
\* another transaction of that description and left the corrected one alone
C25_Witness ==
    /\ last.op = "update_transaction"
    /\ last.status = 200
    /\ last.data.fields = {"category_id", "description"}
    /\ last.data.category_id # 0
    /\ last.n = 1
    /\ ~transactions[last.id].auto_categorized
    /\ \E j \in 1..Len(transactions) :
          /\ j # last.id
          /\ transactions[j].auto_categorized
          /\ transactions[j].category_id = last.data.category_id
    /\ \E r \in 1..Len(rules) :
          rules[r].pattern = Clean(last.data.description)

\* C26: in every state reached by create_transaction, update_transaction,
\* upload_csv, create_category and delete_category requests, the
\* category_id of every stored transaction is the id of an existing
\* category; an upload never stores the id of a deleted category that a
\* learned rule still carries.
C26_TransactionsReferToCategories ==
    \A i \in 1..Len(transactions) :
        transactions[i].category_id \in CategoryIds(categories)

\* C27: for a fixed description the category_id and match_type returned
\* by classify change only through learn: two classify calls on it
\* separated by classify calls on other descriptions, and by no learn call,
\* return the same category_id and match_type.
C27_ClassifyStableWithoutLearn ==
    loc.stage = "done" =>
        /\ last.res.category_id = loc.first.category_id
        /\ last.res.match_type = loc.first.match_type

\* C28: for every description the merchant pattern that learn derives is a
\* substring of the trimmed, upper-cased description, so the contains rule
\* learned from a description matches that description, and so does the
\* pattern batch_categorize_similar derives from it, a store number or a
\* date between two words included.
C28_PatternIsSubstring ==
    loc.called =>
        /\ IsSubstring(Upper(loc.learn), Clean(loc.description))
        /\ IsSubstring(Upper(loc.batch), Clean(loc.description))

\* the transactions whose category a step changed
Relabelled == {i \in 1..Len(transactions) :
                  transactions'[i].category_id # transactions[i].category_id}

\* C29: no rule with an empty pattern is ever stored, and propagation
\* never uses an empty pattern: learn creates no contains rule that matches
\* every description, and batch_categorize_similar re-labels no transaction
\* on the strength of a pattern without any merchant token.
C29_NoEmptyPattern ==
    [][ /\ \A i \in 1..Len(rules') : rules'[i].pattern # <<>>
        /\ (last'.op = "batch" /\ now' = now + 1 /\ Relabelled # {}) =>
              ExtractMerchantPattern(Clean(last'.d)) # <<>> ]_vars

\* C30: the category 'Uncategorized' (id 0) exists in every state
\* reachable after init_db through category and transaction requests, so
\* category_id 0, the default of new and unmatched transactions, always
\* passes validate_category_id; delete_category never removes it.
C30_UncategorizedExists ==
    /\ 0 \in CategoryIds(categories)
    /\ ValidateCategoryId(0, categories)

====
